---- MODULE Spec2Model ----
(***************************************************************************)
(* A model of the Mental-Health-Predictor repository: the data cleaner     *)
(* (src/src/preprocessing/data_cleaner.py), the trainer's manifest         *)
(* (src/deployment/src/training/model_trainer.py) and the predictor's      *)
(* input preprocessing (src/deployment/streamlit_app.py).                  *)
(*                                                                         *)
(* A pandas cell is a tagged value: a string, a number or NaN.  Numbers    *)
(* are kept in tenths (field x10), which is exact for every number the     *)
(* modelled code produces from the modelled inputs: integers, the halves   *)
(* of the support map and medians of integers.                             *)
(* A DataFrame is [columns, rows]: the ordered column names and the rows,  *)
(* each row carrying its pandas index label and its cells.                 *)
(***************************************************************************)
EXTENDS Integers, Sequences, FiniteSets, TLC

VARIABLES
    pc,                   \* position of the running call
    call,                 \* the entry point that is running
    file,                 \* the CSV file given to clean_data (cells are text)
    arg,                  \* the DataFrame a method was called with
    df,                   \* the working DataFrame
    categorical_columns,  \* MentalHealthDataCleaner.categorical_columns
    numerical_columns,    \* MentalHealthDataCleaner.numerical_columns
    label_encoders,       \* MentalHealthDataCleaner.label_encoders
    output,               \* the CSV written to output_path (<<>> until written)
    trainer_feature_names, \* MentalHealthModelTrainer.feature_names
    models_dir,           \* the files of models/, oldest first
    app_feature_names,    \* MentalHealthPredictorApp.feature_names
    user_input,           \* the answers create_input_form returned
    processed,            \* the frame preprocess_input returned
    previous,             \* the earlier clean_data calls: input, table, encoders
    evaluation_results,   \* the dict select_best_model is given: <<name, F1>> items
    best_model_name,      \* MentalHealthModelTrainer.best_model_name
    step,                 \* main's args.step
    results,              \* the pipeline steps that returned, with what they returned
    exit_status,          \* the status main exited with (-1 while running)
    loaded,               \* MentalHealthPredictorApp.model and .scaler
    prediction,           \* what make_prediction returned
    displayed             \* display_results has been invoked

vars == <<pc, call, file, arg, df, categorical_columns, numerical_columns,
          label_encoders, output, trainer_feature_names, models_dir,
          app_feature_names, user_input, processed, previous, evaluation_results,
          best_model_name, step, results, exit_status, loaded, prediction, displayed>>

----------------------------------------------------------------------------
(* Bounds of the model *)

MaxRows == 2
\* the most columns of a frame handed to select_features on its own
MaxCols == 4
\* the most lines of a feature-name file put before load_model on its own
MaxManifest == 3

----------------------------------------------------------------------------
(* Cells *)

NaN == [t |-> "nan", s |-> "", x10 |-> 0]
S(str) == [t |-> "str", s |-> str, x10 |-> 0]
X(tenths) == [t |-> "num", s |-> "", x10 |-> tenths]
N(i) == X(10 * i)
\* str(number): the text of a number, kept as the number under its own tag
NumStr(v) == [t |-> "numstr", s |-> "", x10 |-> v.x10]

isna(v) == v.t = "nan"
fillna(v, value) == IF isna(v) THEN value ELSE v
\* series == 'text'
EqStr(v, str) == v.t = "str" /\ v.s = str
\* series.isin([...])
isin(v, strs) == v.t = "str" /\ v.s \in strs

Range(seq) == {seq[i] : i \in DOMAIN seq}

----------------------------------------------------------------------------
(* Python dict literals: a sequence of <<key, value>> items; a key written *)
(* twice keeps the value written last.                                     *)

HasKey(items, k) == \E i \in DOMAIN items : items[i][1] = k
Lookup(items, k) ==
    LET last == CHOOSE i \in DOMAIN items :
                    /\ items[i][1] = k
                    /\ \A j \in DOMAIN items : items[j][1] = k => j <= i
    IN  items[last][2]
\* Series.map(dict) on one cell: a cell that is no key becomes NaN
map(items, v) == IF v.t = "str" /\ HasKey(items, v.s) THEN Lookup(items, v.s) ELSE NaN

----------------------------------------------------------------------------
(* DataFrames *)

EmptyFrame == [columns |-> <<>>, rows |-> <<>>]
HasCol(d, c) == c \in Range(d.columns)
Column(d, c) == [i \in DOMAIN d.rows |-> d.rows[i].v[c]]
Index(d) == [i \in DOMAIN d.rows |-> d.rows[i].index]
\* df[c] = F(row): assigns column c, appending it when it is new
SetCol(d, c, F(_)) ==
    [columns |-> IF HasCol(d, c) THEN d.columns ELSE Append(d.columns, c),
     rows |-> [i \in DOMAIN d.rows |->
                 [index |-> d.rows[i].index,
                  v |-> [k \in DOMAIN d.rows[i].v \cup {c} |->
                           IF k = c THEN F(d.rows[i].v) ELSE d.rows[i].v[k]]]]]
\* df[mask]
Filter(d, Keep(_)) ==
    [columns |-> d.columns, rows |-> SelectSeq(d.rows, LAMBDA row : Keep(row.v))]
\* df[names]
Project(d, names) ==
    [columns |-> names,
     rows |-> [i \in DOMAIN d.rows |->
                 [index |-> d.rows[i].index,
                  v |-> [k \in Range(names) |-> d.rows[i].v[k]]]]]

\* Series.median(): NaN cells are skipped; NaN when nothing is left
median(col) ==
    LET present == SelectSeq(col, LAMBDA v : v.t = "num")
        sorted == SortSeq([i \in DOMAIN present |-> present[i].x10],
                          LAMBDA a, b : a < b)
        n == Len(sorted)
    IN  IF n = 0 THEN NaN
        ELSE IF n % 2 = 1 THEN X(sorted[(n + 1) \div 2])
        ELSE X((sorted[n \div 2] + sorted[n \div 2 + 1]) \div 2)

----------------------------------------------------------------------------
(* load_data: pd.read_csv.  The decimal numerals of the modelled inputs    *)
(* and the numbers they parse to; any other text does not parse.  A column *)
(* whose cells are all numerals or empty is read as numbers (an empty cell *)
(* as NaN); any other column is read as text (an empty cell as NaN); with  *)
(* no row at all every column is a text column.                            *)

Numerals ==
    << <<"0", 0>>, <<"1", 1>>, <<"14", 14>>, <<"15", 15>>, <<"37", 37>>,
       <<"44", 44>>, <<"80", 80>>, <<"81", 81>> >>

read_csv(f) ==
    LET numeric(c) ==
            /\ f.cells # <<>>
            /\ \A i \in DOMAIN f.cells :
                   f.cells[i][c] = "" \/ HasKey(Numerals, f.cells[i][c])
        cell(c, text) ==
            IF text = "" THEN NaN
            ELSE IF numeric(c) THEN N(Lookup(Numerals, text))
            ELSE S(text)
    IN  [columns |-> f.columns,
         rows |-> [i \in DOMAIN f.cells |->
                     [index |-> i - 1,
                      v |-> [c \in Range(f.columns) |-> cell(c, f.cells[i][c])]]]]

load_data(f) == read_csv(f)

\* a path with no file behind it
NoFile == [columns |-> <<>>, cells |-> <<>>, exists |-> FALSE]

\* a loader that finds a file, an empty one, behind every path
exists_always(f) == TRUE

\* pd.read_csv finds the file (else it raises FileNotFoundError)
exists(f) == f # NoFile

\* the dtype pandas gives a column holding these cells
dtype(d, c) ==
    IF d.rows = <<>> \/ \E i \in DOMAIN d.rows : d.rows[i].v[c].t = "str"
    THEN "object"
    ELSE IF \E i \in DOMAIN d.rows : isna(d.rows[i].v[c]) THEN "float64"
    ELSE "int64"

----------------------------------------------------------------------------
(* MentalHealthDataCleaner *)

\* the text columns with only Timestamp removed
identify_categorical_keeping_comments(d) ==
    SelectSeq(SelectSeq(d.columns, LAMBDA c : dtype(d, c) = "object"),
              LAMBDA c : c # "Timestamp")

\* identify_column_types: the value of self.categorical_columns
identify_categorical(d) ==
    LET object == SelectSeq(d.columns, LAMBDA c : dtype(d, c) = "object")
        noTimestamp == SelectSeq(object, LAMBDA c : c # "Timestamp")
    IN  SelectSeq(noTimestamp, LAMBDA c : c # "comments")

\* identify_column_types: the value of self.numerical_columns
identify_numerical(d) ==
    SelectSeq(d.columns, LAMBDA c : dtype(d, c) \in {"int64", "float64"})

gender_mapping ==
    << <<"Male", S("Male")>>,
       <<"M", S("Male")>>,
       <<"male", S("Male")>>,
       <<"m", S("Male")>>,
       <<"maile", S("Male")>>,
       <<"Male-ish", S("Male")>>,
       <<"Cis Male", S("Male")>>,
       <<"Female", S("Female")>>,
       <<"F", S("Female")>>,
       <<"female", S("Female")>>,
       <<"f", S("Female")>>,
       <<"Cis Female", S("Female")>>,
       <<"Trans-female", S("Transgender")>>,
       <<"something kinda male?", S("Other")>>,
       <<"Male-ish", S("Other")>>,
       <<"Guy (-ish) ^_^", S("Other")>>,
       <<"Enby", S("Other")>>,
       <<"non-binary", S("Other")>>,
       <<"Nah", S("Other")>>,
       <<"All", S("Other")>>,
       <<"ostensibly male, unsure what that really means", S("Other")>> >>

\* the lookup without the fill of what it does not find
clean_gender_column_unfilled(d) ==
    SetCol(d, "Gender", LAMBDA r : map(gender_mapping, r["Gender"]))

clean_gender_column(d) ==
    SetCol(d, "Gender", LAMBDA r : fillna(map(gender_mapping, r["Gender"]), S("Other")))

\* pd.to_numeric(errors='coerce') on one cell
to_numeric(v) ==
    IF v.t = "num" THEN v
    ELSE IF v.t = "str" /\ HasKey(Numerals, v.s) THEN N(Lookup(Numerals, v.s))
    ELSE NaN

MinAge == 15
MaxAge == 80

\* (df['Age'] >= 15) & (df['Age'] <= 80): a comparison with NaN is False
age_in_range(r) ==
    r["Age"].t = "num" /\ r["Age"].x10 >= N(MinAge).x10 /\ r["Age"].x10 <= N(MaxAge).x10

\* a cleaner that blanks an out-of-range Age instead of dropping its row
clean_age_column_nulling(d) ==
    LET numeric == SetCol(d, "Age", LAMBDA r : to_numeric(r["Age"]))
        nulled == SetCol(numeric, "Age", LAMBDA r : IF age_in_range(r) THEN r["Age"] ELSE NaN)
        median_age == median(Column(nulled, "Age"))
    IN  SetCol(nulled, "Age", LAMBDA r : fillna(r["Age"], median_age))

\* a cleaner whose range filter lets a missing Age through to the median fill
clean_age_column_keeping_missing(d) ==
    LET numeric == SetCol(d, "Age", LAMBDA r : to_numeric(r["Age"]))
        kept == Filter(numeric, LAMBDA r : isna(r["Age"]) \/ age_in_range(r))
        median_age == median(Column(kept, "Age"))
    IN  SetCol(kept, "Age", LAMBDA r : fillna(r["Age"], median_age))

clean_age_column(d) ==
    LET numeric == SetCol(d, "Age", LAMBDA r : to_numeric(r["Age"]))
        kept == Filter(numeric, age_in_range)
        median_age == median(Column(kept, "Age"))
    IN  SetCol(kept, "Age", LAMBDA r : fillna(r["Age"], median_age))

\* the rule read left to right:  (a | b | c | d) & e
risk_conditions_left_to_right(r) ==
    /\ \/ EqStr(r["treatment"], "Yes")
       \/ EqStr(r["work_interfere"], "Often")
       \/ EqStr(r["mental_health_consequence"], "Yes")
       \/ EqStr(r["family_history"], "Yes")
    /\ isin(r["work_interfere"], {"Sometimes", "Often"})

\* Python parses  a | b | c | d & e  as  ((a | b) | c) | (d & e)
risk_conditions(r) ==
    \/ \/ \/ EqStr(r["treatment"], "Yes")
          \/ EqStr(r["work_interfere"], "Often")
       \/ EqStr(r["mental_health_consequence"], "Yes")
    \/ /\ EqStr(r["family_history"], "Yes")
       /\ isin(r["work_interfere"], {"Sometimes", "Often"})

create_target_variable(d) ==
    SetCol(d, "mental_health_risk", LAMBDA r : IF risk_conditions(r) THEN N(1) ELSE N(0))

\* df[col].median() raises TypeError on a column that holds text
median_raises(d, numerical) ==
    \E c \in Range(numerical) \cap Range(d.columns) :
        /\ c # "mental_health_risk"
        /\ \E i \in DOMAIN d.rows : d.rows[i].v[c].t = "str"

\* a step that drops the records with a missing categorical value
handle_missing_values_dropping(d, categorical, numerical) ==
    Filter(d, LAMBDA r : \A c \in Range(categorical) \cap DOMAIN r : ~isna(r[c]))

\* the two loops touch disjoint columns, each filled from its own cells
handle_missing_values(d, categorical, numerical) ==
    LET median_val == [c \in Range(d.columns) |-> median(Column(d, c))]
        filled(c, v) ==
            IF c \in Range(categorical) THEN fillna(v, S("Unknown"))
            ELSE IF c \in Range(numerical) /\ c # "mental_health_risk"
                 THEN fillna(v, median_val[c])
            ELSE v
    IN  [columns |-> d.columns,
         rows |-> [i \in DOMAIN d.rows |->
                     [index |-> d.rows[i].index,
                      v |-> [c \in DOMAIN d.rows[i].v |-> filled(c, d.rows[i].v[c])]]]]

----------------------------------------------------------------------------
(* sklearn's LabelEncoder on df[col].astype(str): classes_ is the sorted   *)
(* list of the distinct texts, a text's code its 0-based place in it.      *)
(* Python orders texts by code point.  StringOrder lists the texts of the  *)
(* model in that order; the text of a number is ordered by its decimal     *)
(* digits ('.' sorts before every digit).                                  *)

StringOrder == 
    <<"0",
      "1",
      "1-5",
      "100-500",
      "14",
      "15",
      "2014-08-27 11:29:31",
      "26-100",
      "37",
      "44",
      "500-1000",
      "6-25",
      "80",
      "81",
      "All",
      "Cis Female",
      "Cis Male",
      "Don't know",
      "Enby",
      "F",
      "Female",
      "Guy (-ish) ^_^",
      "M",
      "Male",
      "Male-ish",
      "Maybe",
      "More than 1000",
      "Nah",
      "Never",
      "No",
      "Not sure",
      "Often",
      "Other",
      "Rarely",
      "Some of them",
      "Sometimes",
      "Somewhat difficult",
      "Somewhat easy",
      "Trans-female",
      "Transgender",
      "US",
      "United States",
      "Unknown",
      "Very difficult",
      "Very easy",
      "Yes",
      "abc",
      "f",
      "female",
      "high",
      "low",
      "m",
      "maile",
      "male",
      "nan",
      "non-binary",
      "ostensibly male, unsure what that really means",
      "queer",
      "something kinda male?">>

Rank(str) == CHOOSE i \in DOMAIN StringOrder : StringOrder[i] = str

RECURSIVE Digits(_)
Digits(n) == IF n < 10 THEN <<n>> ELSE Append(Digits(n \div 10), n % 10)
\* the characters of str(float): digits, '.', one decimal ('.' written -1)
Decimal(x10) == Digits(x10 \div 10) \o <<-1, x10 % 10>>

RECURSIVE LexLess(_, _)
LexLess(a, b) ==
    IF a = <<>> THEN b # <<>>
    ELSE IF b = <<>> THEN FALSE
    ELSE IF Head(a) # Head(b) THEN Head(a) < Head(b)
    ELSE LexLess(Tail(a), Tail(b))

StrLess(a, b) ==
    CASE a.t = "str" /\ b.t = "str" -> Rank(a.s) < Rank(b.s)
      [] a.t = "numstr" /\ b.t = "numstr" -> LexLess(Decimal(a.x10), Decimal(b.x10))

\* Series.astype(str) on one cell
astype_str(v) ==
    IF v.t = "num" THEN NumStr(v) ELSE IF isna(v) THEN S("nan") ELSE v

\* classes in the order the texts first appear in the column
fit_by_appearance(col) ==
    LET texts == [i \in DOMAIN col |-> astype_str(col[i])]
        firsts == {i \in DOMAIN col : \A j \in 1..(i - 1) : texts[j] # texts[i]}
    IN  [n \in 1..Cardinality(firsts) |->
            texts[CHOOSE i \in firsts : Cardinality({j \in firsts : j < i}) = n - 1]]

\* LabelEncoder.fit: classes_
fit(col) ==
    LET texts == {astype_str(col[i]) : i \in DOMAIN col}
        before(v) == Cardinality({w \in texts : StrLess(w, v)})
    IN  [i \in 1..Cardinality(texts) |-> CHOOSE v \in texts : before(v) = i - 1]

\* LabelEncoder.transform on one cell, and inverse_transform on one code
transform(classes, v) == (CHOOSE i \in DOMAIN classes : classes[i] = astype_str(v)) - 1
inverse_transform(classes, code) == classes[code + 1]

\* the columns the loop of encode_categorical_variables encodes
encoded_columns(d, categorical) == {c \in Range(categorical) : HasCol(d, c)}

\* an encoding of the first categorical column only
encode_categorical_variables_first_only(d, categorical) ==
    LET first == {c \in encoded_columns(d, categorical) : c = Head(categorical)}
        le == [c \in first |-> fit(Column(d, c))]
    IN  [columns |-> d.columns,
         rows |-> [i \in DOMAIN d.rows |->
                     [index |-> d.rows[i].index,
                      v |-> [c \in DOMAIN d.rows[i].v |->
                               IF c \in DOMAIN le
                               THEN N(transform(le[c], d.rows[i].v[c]))
                               ELSE d.rows[i].v[c]]]]]

\* encode_categorical_variables: the returned df
encode_categorical_variables(d, categorical) ==
    LET le == [c \in encoded_columns(d, categorical) |-> fit(Column(d, c))]
    IN  [columns |-> d.columns,
         rows |-> [i \in DOMAIN d.rows |->
                     [index |-> d.rows[i].index,
                      v |-> [c \in DOMAIN d.rows[i].v |->
                               IF c \in DOMAIN le
                               THEN N(transform(le[c], d.rows[i].v[c]))
                               ELSE d.rows[i].v[c]]]]]

\* encoders stored with their classes in descending order
fitted_encoders_reversed(d, categorical, encoders) ==
    [c \in DOMAIN encoders \cup encoded_columns(d, categorical) |->
        IF c \in encoded_columns(d, categorical)
        THEN LET classes == fit(Column(d, c))
             IN  [i \in DOMAIN classes |-> classes[Len(classes) + 1 - i]]
        ELSE encoders[c]]

\* encode_categorical_variables: self.label_encoders afterwards
fitted_encoders(d, categorical, encoders) ==
    [c \in DOMAIN encoders \cup encoded_columns(d, categorical) |->
        IF c \in encoded_columns(d, categorical) THEN fit(Column(d, c)) ELSE encoders[c]]

----------------------------------------------------------------------------
(* create_feature_engineering *)

\* the scale counted from one
work_stress_mapping_from_one ==
    << <<"Never", N(1)>>, <<"Rarely", N(2)>>, <<"Sometimes", N(3)>>, <<"Often", N(4)>> >>

work_stress_mapping ==
    << <<"Never", N(0)>>, <<"Rarely", N(1)>>, <<"Sometimes", N(2)>>, <<"Often", N(3)>> >>

company_size_mapping ==
    << <<"1-5", N(1)>>, <<"6-25", N(2)>>, <<"26-100", N(3)>>, <<"100-500", N(4)>>,
       <<"500-1000", N(5)>>, <<"More than 1000", N(6)>> >>

support_features ==
    <<"benefits", "care_options", "wellness_program", "seek_help", "anonymity">>

support_mapping ==
    << <<"Yes", N(1)>>, <<"No", N(0)>>, <<"Don't know", X(5)>>, <<"Not sure", X(5)>> >>

\* the loop adding df[feature].map(support_mapping).fillna(0) for the
\* features that are columns of df, starting from 0
RECURSIVE support_sum(_, _, _)
support_sum(d, r, k) ==
    IF k = 0 THEN 0
    ELSE support_sum(d, r, k - 1)
         + (IF HasCol(d, support_features[k])
            THEN fillna(map(support_mapping, r[support_features[k]]), N(0)).x10
            ELSE 0)

\* a score averaged over the support columns that are present
support_score_renormalised(d, r) ==
    LET present == Cardinality({k \in DOMAIN support_features : HasCol(d, support_features[k])})
    IN  IF present = 0 THEN X(0)
        ELSE X(support_sum(d, r, Len(support_features)) \div present)

\* support_score / len(support_features)
support_score(d, r) == X(support_sum(d, r, Len(support_features)) \div Len(support_features))

create_feature_engineering(d) ==
    LET d1 == SetCol(d, "is_remote_worker",
                     LAMBDA r : IF EqStr(r["remote_work"], "Yes") THEN N(1) ELSE N(0))
        d2 == SetCol(d1, "work_stress_level",
                     LAMBDA r : fillna(map(work_stress_mapping, r["work_interfere"]), N(1)))
        d3 == SetCol(d2, "company_size_category",
                     LAMBDA r : fillna(map(company_size_mapping, r["no_employees"]), N(3)))
    IN  SetCol(d3, "mental_health_support_score", LAMBDA r : support_score(d, r))

----------------------------------------------------------------------------
(* select_features *)

feature_columns ==
    <<"Age", "Gender", "family_history", "work_interfere", "no_employees",
      "remote_work", "tech_company", "benefits", "care_options", "wellness_program",
      "seek_help", "anonymity", "leave", "mental_health_consequence",
      "phys_health_consequence", "coworkers", "supervisor", "mental_health_interview",
      "phys_health_interview", "mental_vs_physical", "obs_consequence",
      "is_remote_worker", "work_stress_level", "company_size_category",
      "mental_health_support_score">>

\* the candidates kept in the order of the frame's columns
available_features_in_frame_order(d) ==
    SelectSeq(d.columns, LAMBDA col : col \in Range(feature_columns))

available_features(d) == SelectSeq(feature_columns, LAMBDA col : HasCol(d, col))
final_columns(d) == available_features(d) \o <<"mental_health_risk">>

select_features(d) == Project(d, final_columns(d))

----------------------------------------------------------------------------
(* The steps of MentalHealthDataCleaner.  Each method is one action; under *)
(* clean_data the methods run in the order clean_data calls them, and a    *)
(* method called on its own returns to its caller.  df['name'] on a frame  *)
(* without that column raises KeyError.                                    *)

\* clean_data with the encoding moved ahead of the feature engineering
stages_encoding_first ==
    <<"load_data", "identify_column_types", "clean_gender_column", "clean_age_column",
      "create_target_variable", "handle_missing_values", "encode_categorical_variables",
      "create_feature_engineering", "select_features", "to_csv", "done">>

stages ==
    <<"load_data", "identify_column_types", "clean_gender_column", "clean_age_column",
      "create_target_variable", "handle_missing_values", "create_feature_engineering",
      "encode_categorical_variables", "select_features", "to_csv", "done">>

\* where control goes when the method at pc returns: to the next stage in
\* clean_data; in a test that calls identify_column_types first, to the method
\* under test; else back to the caller
After(stage) ==
    IF call = "clean_data"
    THEN stages[(CHOOSE i \in DOMAIN stages : stages[i] = stage) + 1]
    ELSE IF stage = "identify_column_types" /\ call # stage THEN call
    ELSE "return"

cleanerVars == <<categorical_columns, numerical_columns, label_encoders>>
trainerVars == <<trainer_feature_names, models_dir>>
appVars == <<app_feature_names, user_input, processed>>
selectVars == <<evaluation_results, best_model_name>>
mainVars == <<step, results, exit_status>>
predictVars == <<loaded, prediction, displayed>>
restVars == <<previous, selectVars, mainVars>>

LoadData ==
    /\ pc = "load_data"
    /\ IF exists(file)
       THEN df' = load_data(file) /\ pc' = After("load_data")
       ELSE df' = df /\ pc' = "FileNotFoundError"
    /\ UNCHANGED <<call, file, arg, cleanerVars, output, trainerVars, appVars,
                   restVars, predictVars>>

IdentifyColumnTypes ==
    /\ pc = "identify_column_types"
    /\ categorical_columns' = identify_categorical(df)
    /\ numerical_columns' = identify_numerical(df)
    /\ pc' = After("identify_column_types")
    /\ UNCHANGED <<call, file, arg, df, label_encoders, output, trainerVars, appVars,
                   restVars, predictVars>>

\* a method that reads the columns `needed` and returns Result
Step(stage, needed, Result) ==
    /\ pc = stage
    /\ IF needed \subseteq Range(df.columns)
       THEN df' = Result /\ pc' = After(stage)
       ELSE df' = df /\ pc' = "KeyError"

CleanGender ==
    /\ Step("clean_gender_column", {"Gender"}, clean_gender_column(df))
    /\ UNCHANGED <<call, file, arg, cleanerVars, output, trainerVars, appVars,
                   restVars, predictVars>>

CleanAge ==
    /\ Step("clean_age_column", {"Age"}, clean_age_column(df))
    /\ UNCHANGED <<call, file, arg, cleanerVars, output, trainerVars, appVars,
                   restVars, predictVars>>

CreateTarget ==
    /\ Step("create_target_variable",
            {"treatment", "work_interfere", "mental_health_consequence", "family_history"},
            create_target_variable(df))
    /\ UNCHANGED <<call, file, arg, cleanerVars, output, trainerVars, appVars,
                   restVars, predictVars>>

HandleMissing ==
    /\ pc = "handle_missing_values"
    /\ IF median_raises(df, numerical_columns)
       THEN df' = df /\ pc' = "TypeError"
       ELSE /\ df' = handle_missing_values(df, categorical_columns, numerical_columns)
            /\ pc' = After("handle_missing_values")
    /\ UNCHANGED <<call, file, arg, cleanerVars, output, trainerVars, appVars,
                   restVars, predictVars>>

FeatureEngineering ==
    /\ Step("create_feature_engineering", {"remote_work", "work_interfere", "no_employees"},
            create_feature_engineering(df))
    /\ UNCHANGED <<call, file, arg, cleanerVars, output, trainerVars, appVars,
                   restVars, predictVars>>

\* an encoding that skips the columns this instance holds an encoder for
EncodeCategoricalCached ==
    /\ Step("encode_categorical_variables", {},
            encode_categorical_variables(
                df, SelectSeq(categorical_columns, LAMBDA c : c \notin DOMAIN label_encoders)))
    /\ label_encoders' = fitted_encoders(df, categorical_columns, label_encoders)
    /\ UNCHANGED <<call, file, arg, categorical_columns, numerical_columns, output,
                   trainerVars, appVars, restVars, predictVars>>

EncodeCategorical ==
    /\ Step("encode_categorical_variables", {},
            encode_categorical_variables(df, categorical_columns))
    /\ label_encoders' = fitted_encoders(df, categorical_columns, label_encoders)
    /\ UNCHANGED <<call, file, arg, categorical_columns, numerical_columns, output,
                   trainerVars, appVars,
                   restVars, predictVars>>

SelectFeatures ==
    /\ Step("select_features", {"mental_health_risk"}, select_features(df))
    /\ UNCHANGED <<call, file, arg, cleanerVars, output, trainerVars, appVars,
                   restVars, predictVars>>

\* clean_data's callers pass output_path: df_clean.to_csv(output_path), return df_clean
SaveCleaned ==
    /\ pc = "to_csv"
    /\ output' = <<df>>
    /\ pc' = After("to_csv")
    /\ UNCHANGED <<call, file, arg, df, cleanerVars, trainerVars, appVars,
                   restVars, predictVars>>

----------------------------------------------------------------------------
(* clean_data on a survey export.  The files of the model: a survey header *)
(* with or without a column named mental_health_risk already in it, and up *)
(* to MaxRows answers, each the base answer changed in its Age, its Gender *)
(* or the four fields the label is derived from.                           *)

Header ==
    <<"Timestamp", "Age", "Gender", "Country", "family_history", "treatment",
      "work_interfere", "no_employees", "remote_work", "tech_company", "benefits",
      "care_options", "wellness_program", "seek_help", "anonymity", "leave",
      "mental_health_consequence", "coworkers", "comments">>

BaseRow ==
    [Timestamp |-> "2014-08-27 11:29:31", Age |-> "37", Gender |-> "M",
     Country |-> "United States", family_history |-> "No", treatment |-> "No",
     work_interfere |-> "Never", no_employees |-> "6-25", remote_work |-> "No",
     tech_company |-> "Yes", benefits |-> "Yes", care_options |-> "Not sure",
     wellness_program |-> "No", seek_help |-> "Don't know", anonymity |-> "Yes",
     leave |-> "Somewhat easy", mental_health_consequence |-> "No",
     coworkers |-> "Some of them", comments |-> ""]

AgeCells == {"14", "15", "44", "80", "81", "", "abc"}
GenderCells == {"Female", "f", "Trans-female", "queer", ""}
\* <<treatment, work_interfere, mental_health_consequence, family_history>>
RiskCells ==
    { <<"Yes", "Never", "No", "No">>, <<"No", "Often", "No", "No">>,
      <<"No", "Never", "Yes", "No">>, <<"No", "Sometimes", "No", "Yes">>,
      <<"No", "Sometimes", "No", "No">>, <<"No", "Rarely", "Maybe", "Yes">>,
      <<"", "", "Maybe", "">> }

RowChoices ==
    {[BaseRow EXCEPT !.Age = a] : a \in AgeCells}
    \cup {[BaseRow EXCEPT !.Gender = g] : g \in GenderCells}
    \cup {[BaseRow EXCEPT !.treatment = q[1], !.work_interfere = q[2],
                          !.mental_health_consequence = q[3], !.family_history = q[4]] :
            q \in RiskCells}

\* the text of a mental_health_risk column of the raw file ("" : no such column)
RawRiskCells == {"", "high", "1"}

SurveyFiles ==
    {[columns |-> IF risk = "" THEN Header ELSE Append(Header, "mental_health_risk"),
      cells |-> [i \in DOMAIN rows |->
                   IF risk = "" THEN rows[i]
                   ELSE rows[i] @@ ("mental_health_risk" :> risk)]] :
        rows \in UNION {[1..n -> RowChoices] : n \in 1..MaxRows},
        risk \in RawRiskCells}

NoEncoders == [c \in {} |-> <<>>]
NoAnswers == [c \in {} |-> NaN]
\* an attribute that is None, and one holding an object fit on the columns `names`
None == [loaded |-> FALSE, on |-> <<>>]
Artifact(names) == [loaded |-> TRUE, on |-> names]
\* MentalHealthPredictorApp.__init__: self.model = None, self.scaler = None
NoArtifacts == [model |-> None, scaler |-> None]

\* nothing cleaned before, no model evaluated, main not started, nothing loaded
RestInit ==
    /\ previous = <<>>
    /\ evaluation_results = <<>>
    /\ best_model_name = "None"
    /\ step = "none"
    /\ results = <<>>
    /\ exit_status = -1
    /\ loaded = NoArtifacts
    /\ prediction = "unset"
    /\ displayed = FALSE

Init ==
    /\ pc = "load_data"
    /\ call = "clean_data"
    /\ file \in SurveyFiles
    /\ arg = EmptyFrame
    /\ df = EmptyFrame
    /\ categorical_columns = <<>>
    /\ numerical_columns = <<>>
    /\ label_encoders = NoEncoders
    /\ output = <<>>
    /\ trainer_feature_names = <<>>
    /\ models_dir = <<>>
    /\ app_feature_names = <<>>
    /\ user_input = NoAnswers
    /\ processed = EmptyFrame
    /\ RestInit

Next ==
    \/ LoadData
    \/ IdentifyColumnTypes
    \/ CleanGender
    \/ CleanAge
    \/ CreateTarget
    \/ HandleMissing
    \/ FeatureEngineering
    \/ EncodeCategorical
    \/ SelectFeatures
    \/ SaveCleaned

Spec == Init /\ [][Next]_vars

----------------------------------------------------------------------------
(* clean_data called again and again, on the same cleaner or on a new one, *)
(* on the same file or on another: files with and without a Country        *)
(* column, with an Age column read as text, without a Gender column, and a *)
(* path with no file.                                                      *)

MaxRuns == 2

Without(columns, c) == SelectSeq(columns, LAMBDA x : x # c)

ReuseFiles ==
    { [columns |-> Header, cells |-> <<BaseRow>>],
      [columns |-> Header, cells |-> <<BaseRow, [BaseRow EXCEPT !.Gender = "Female"]>>],
      [columns |-> Without(Header, "Country"), cells |-> <<BaseRow>>],
      [columns |-> Header, cells |-> <<[BaseRow EXCEPT !.Age = "abc"], BaseRow>>],
      [columns |-> Without(Header, "Gender"), cells |-> <<BaseRow>>],
      NoFile }

\* the states in which a clean_data call is over: returned or raised
Over == {"done", "KeyError", "TypeError", "FileNotFoundError"}

\* clean_data is called once more: on a new MentalHealthDataCleaner() or on
\* the one of the call before; the cleaned file of that call is still on disk
CleanAgain ==
    /\ call = "clean_data"
    /\ pc \in Over
    /\ Len(previous) < MaxRuns
    /\ file' \in ReuseFiles
    /\ \E fresh \in BOOLEAN :
          /\ categorical_columns' = IF fresh THEN <<>> ELSE categorical_columns
          /\ numerical_columns' = IF fresh THEN <<>> ELSE numerical_columns
          /\ label_encoders' = IF fresh THEN NoEncoders ELSE label_encoders
    /\ previous' = Append(previous,
                          [file |-> file, outcome |-> pc, table |-> df,
                           left |-> <<categorical_columns', numerical_columns',
                                      label_encoders'>>])
    /\ df' = EmptyFrame
    /\ pc' = "load_data"
    /\ UNCHANGED <<call, arg, output, trainerVars, appVars, selectVars, mainVars,
                   predictVars>>

InitReuse ==
    /\ pc = "load_data"
    /\ call = "clean_data"
    /\ file \in ReuseFiles
    /\ arg = EmptyFrame
    /\ df = EmptyFrame
    /\ categorical_columns = <<>>
    /\ numerical_columns = <<>>
    /\ label_encoders = NoEncoders
    /\ output = <<>>
    /\ trainer_feature_names = <<>>
    /\ models_dir = <<>>
    /\ app_feature_names = <<>>
    /\ user_input = NoAnswers
    /\ processed = EmptyFrame
    /\ RestInit

NextReuse ==
    \/ LoadData
    \/ IdentifyColumnTypes
    \/ CleanGender
    \/ CleanAge
    \/ CreateTarget
    \/ HandleMissing
    \/ FeatureEngineering
    \/ EncodeCategorical
    \/ SelectFeatures
    \/ SaveCleaned
    \/ CleanAgain

SpecReuse == InitReuse /\ [][NextReuse]_vars

----------------------------------------------------------------------------
(* The cleaner's methods called on their own, as the unit tests call them, *)
(* each on a one-row frame built in memory.                                *)

Frame(columns, cells) == [columns |-> columns, rows |-> <<[index |-> 0, v |-> cells]>>]

TreatmentCells == {S("Yes"), S("No"), NaN}
InterfereCells == {S("Never"), S("Rarely"), S("Sometimes"), S("Often"), NaN}
ConsequenceCells == {S("Yes"), S("No"), S("Maybe"), NaN}
HistoryCells == {S("Yes"), S("No"), NaN}

TargetFrames ==
    {Frame(<<"treatment", "work_interfere", "mental_health_consequence", "family_history">>,
           [treatment |-> a, work_interfere |-> b,
            mental_health_consequence |-> c, family_history |-> d]) :
        a \in TreatmentCells, b \in InterfereCells,
        c \in ConsequenceCells, d \in HistoryCells}

\* every spelling the map knows, two it does not know, and a missing value
GenderInputs ==
    {S(gender_mapping[i][1]) : i \in DOMAIN gender_mapping} \cup {S("queer"), S("MALE"), NaN}

GenderFrames == {Frame(<<"Gender">>, [Gender |-> g]) : g \in GenderInputs}

SupportCells == {S("Yes"), S("No"), S("Don't know"), S("Not sure"), S("Maybe"), NaN}

\* the frames with any of the five support columns present, in the survey's order
EngineeringFrames ==
    {Frame(SelectSeq(<<"work_interfere", "no_employees", "remote_work">> \o support_features,
                     LAMBDA c : c \in DOMAIN support \cup {"work_interfere", "no_employees",
                                                          "remote_work"}),
           support @@ [work_interfere |-> S("Rarely"), no_employees |-> S("6-25"),
                       remote_work |-> S("No")]) :
        support \in UNION {[present -> SupportCells] :
                              present \in SUBSET Range(support_features)}}

ColumnPool ==
    {"mental_health_support_score", "Gender", "Country", "Age", "mental_health_risk",
     "work_interfere"}

\* the frames whose columns are up to MaxCols names of the pool, in any order
SelectionFrames ==
    {Frame(columns, [c \in Range(columns) |-> N(0)]) :
        columns \in {q \in UNION {[1..n -> ColumnPool] : n \in 0..MaxCols} :
                        \A i, j \in DOMAIN q : q[i] = q[j] => i = j}}

InterfereInputs == InterfereCells \cup {S("Unknown"), S("often")}
SizeInputs ==
    {S("1-5"), S("6-25"), S("26-100"), S("100-500"), S("500-1000"), S("More than 1000"),
     S("Unknown"), NaN}
RemoteInputs == {S("Yes"), S("No"), S("yes"), NaN}

\* the frames of one record with any answers to the three questions the
\* derived features are computed from
DerivedFrames ==
    {Frame(<<"work_interfere", "no_employees", "remote_work">>,
           [work_interfere |-> w, no_employees |-> e, remote_work |-> r]) :
        w \in InterfereInputs, e \in SizeInputs, r \in RemoteInputs}

\* tables as pandas types them: a Timestamp and a comments column or not,
\* an Age and a Country column, up to MaxRows records, cells missing or not
TypedFiles ==
    {[columns |-> SelectSeq(<<"Timestamp", "Age", "Country", "comments">>,
                            LAMBDA c : c \notin absent),
      cells |-> [i \in DOMAIN rows |->
                   [c \in {"Timestamp", "Age", "Country", "comments"} \ absent |->
                       IF c = "Timestamp" THEN BaseRow["Timestamp"] ELSE rows[i][c]]]] :
        absent \in SUBSET {"Timestamp", "comments"},
        rows \in UNION {[1..n -> [Age : {"37", ""},
                                  Country : {"United States", "US", ""},
                                  comments : {"", "abc"}]] : n \in 1..MaxRows}}

\* those tables, and pd.DataFrame()
TypedFrames == {read_csv(f) : f \in TypedFiles} \cup {EmptyFrame}

UnitCalls ==
    [create_target_variable |-> TargetFrames,
     clean_gender_column |-> GenderFrames,
     create_feature_engineering |-> EngineeringFrames \cup DerivedFrames,
     select_features |-> SelectionFrames,
     identify_column_types |-> TypedFrames,
     handle_missing_values |-> TypedFrames,
     encode_categorical_variables |-> TypedFrames]

\* the methods whose tests call identify_column_types first
TypedCalls == {"handle_missing_values", "encode_categorical_variables"}

InitUnit ==
    /\ call \in DOMAIN UnitCalls
    /\ pc = IF call \in TypedCalls THEN "identify_column_types" ELSE call
    /\ arg \in UnitCalls[call]
    /\ df = arg
    /\ file = [columns |-> <<>>, cells |-> <<>>]
    /\ categorical_columns = <<>>
    /\ numerical_columns = <<>>
    /\ label_encoders = NoEncoders
    /\ output = <<>>
    /\ trainer_feature_names = <<>>
    /\ models_dir = <<>>
    /\ app_feature_names = <<>>
    /\ user_input = NoAnswers
    /\ processed = EmptyFrame
    /\ RestInit

NextUnit ==
    \/ CleanGender
    \/ CreateTarget
    \/ FeatureEngineering
    \/ SelectFeatures
    \/ IdentifyColumnTypes
    \/ HandleMissing
    \/ EncodeCategorical

SpecUnit == InitUnit /\ [][NextUnit]_vars

----------------------------------------------------------------------------
(* Text files.  A text is a sequence of characters; Spelling gives the     *)
(* characters of the column names of the model, and Text the name a        *)
(* sequence of characters spells ("?" when it spells none of them).        *)

Spelling ==
    [Age |-> <<"A", "g", "e">>,
     Gender |-> <<"G", "e", "n", "d", "e", "r">>,
     family_history |-> <<"f", "a", "m", "i", "l", "y", "_", "h", "i", "s", "t", "o", "r", "y">>,
     work_interfere |-> <<"w", "o", "r", "k", "_", "i", "n", "t", "e", "r", "f", "e", "r", "e">>,
     no_employees |-> <<"n", "o", "_", "e", "m", "p", "l", "o", "y", "e", "e", "s">>,
     remote_work |-> <<"r", "e", "m", "o", "t", "e", "_", "w", "o", "r", "k">>,
     tech_company |-> <<"t", "e", "c", "h", "_", "c", "o", "m", "p", "a", "n", "y">>,
     benefits |-> <<"b", "e", "n", "e", "f", "i", "t", "s">>,
     care_options |-> <<"c", "a", "r", "e", "_", "o", "p", "t", "i", "o", "n", "s">>,
     wellness_program |-> <<"w", "e", "l", "l", "n", "e", "s", "s", "_", "p", "r", "o", "g", "r", "a", "m">>,
     seek_help |-> <<"s", "e", "e", "k", "_", "h", "e", "l", "p">>,
     anonymity |-> <<"a", "n", "o", "n", "y", "m", "i", "t", "y">>,
     leave |-> <<"l", "e", "a", "v", "e">>,
     mental_health_consequence |-> <<"m", "e", "n", "t", "a", "l", "_", "h", "e", "a", "l", "t", "h", "_", "c", "o", "n", "s", "e", "q", "u", "e", "n", "c", "e">>,
     phys_health_consequence |-> <<"p", "h", "y", "s", "_", "h", "e", "a", "l", "t", "h", "_", "c", "o", "n", "s", "e", "q", "u", "e", "n", "c", "e">>,
     coworkers |-> <<"c", "o", "w", "o", "r", "k", "e", "r", "s">>,
     supervisor |-> <<"s", "u", "p", "e", "r", "v", "i", "s", "o", "r">>,
     mental_health_interview |-> <<"m", "e", "n", "t", "a", "l", "_", "h", "e", "a", "l", "t", "h", "_", "i", "n", "t", "e", "r", "v", "i", "e", "w">>,
     phys_health_interview |-> <<"p", "h", "y", "s", "_", "h", "e", "a", "l", "t", "h", "_", "i", "n", "t", "e", "r", "v", "i", "e", "w">>,
     mental_vs_physical |-> <<"m", "e", "n", "t", "a", "l", "_", "v", "s", "_", "p", "h", "y", "s", "i", "c", "a", "l">>,
     obs_consequence |-> <<"o", "b", "s", "_", "c", "o", "n", "s", "e", "q", "u", "e", "n", "c", "e">>,
     is_remote_worker |-> <<"i", "s", "_", "r", "e", "m", "o", "t", "e", "_", "w", "o", "r", "k", "e", "r">>,
     work_stress_level |-> <<"w", "o", "r", "k", "_", "s", "t", "r", "e", "s", "s", "_", "l", "e", "v", "e", "l">>,
     company_size_category |-> <<"c", "o", "m", "p", "a", "n", "y", "_", "s", "i", "z", "e", "_", "c", "a", "t", "e", "g", "o", "r", "y">>,
     mental_health_support_score |-> <<"m", "e", "n", "t", "a", "l", "_", "h", "e", "a", "l", "t", "h", "_", "s", "u", "p", "p", "o", "r", "t", "_", "s", "c", "o", "r", "e">>,
     mental_health_risk |-> <<"m", "e", "n", "t", "a", "l", "_", "h", "e", "a", "l", "t", "h", "_", "r", "i", "s", "k">>,
     Country |-> <<"C", "o", "u", "n", "t", "r", "y">>]

Chars(name) == Spelling[name]
Text(chars) ==
    IF chars = <<>> THEN ""
    ELSE IF \E n \in DOMAIN Spelling : Spelling[n] = chars
    THEN CHOOSE n \in DOMAIN Spelling : Spelling[n] = chars
    ELSE "?"

RECURSIVE Concat(_)
Concat(texts) == IF texts = <<>> THEN <<>> ELSE Head(texts) \o Concat(Tail(texts))

\* str.split(sep)
RECURSIVE split(_, _)
split(chars, sep) ==
    IF \E k \in DOMAIN chars : chars[k] = sep
    THEN LET k == CHOOSE i \in DOMAIN chars :
                      chars[i] = sep /\ \A j \in 1..(i - 1) : chars[j] # sep
         IN  <<SubSeq(chars, 1, k - 1)>> \o split(SubSeq(chars, k + 1, Len(chars)), sep)
    ELSE <<chars>>

\* f.readlines(): the lines, each with its line break
RECURSIVE readlines(_)
readlines(chars) ==
    IF chars = <<>> THEN <<>>
    ELSE IF \E k \in DOMAIN chars : chars[k] = "\n"
    THEN LET k == CHOOSE i \in DOMAIN chars :
                      chars[i] = "\n" /\ \A j \in 1..(i - 1) : chars[j] # "\n"
         IN  <<SubSeq(chars, 1, k)>> \o readlines(SubSeq(chars, k + 1, Len(chars)))
    ELSE <<chars>>

Whitespace == {" ", "\t", "\n", "\r"}

\* str.strip()
RECURSIVE strip(_)
strip(chars) ==
    IF chars = <<>> THEN <<>>
    ELSE IF Head(chars) \in Whitespace THEN strip(Tail(chars))
    ELSE IF chars[Len(chars)] \in Whitespace THEN strip(SubSeq(chars, 1, Len(chars) - 1))
    ELSE chars

\* DataFrame.to_csv(index=False): the header line
to_csv_header(columns) ==
    Concat([i \in DOMAIN columns |->
              IF i = 1 THEN Chars(columns[i]) ELSE <<",">> \o Chars(columns[i])]) \o <<"\n">>

\* pd.read_csv: the column names of a header line
read_csv_header(line) ==
    LET fields == split(strip(line), ",")
    IN  [i \in DOMAIN fields |-> Text(fields[i])]

----------------------------------------------------------------------------
(* MentalHealthModelTrainer *)

\* load_data: the cleaned CSV read back
trainer_load_data(written) ==
    [columns |-> read_csv_header(to_csv_header(written.columns)), rows |-> written.rows]

\* prepare_data: X = df.drop('mental_health_risk', axis=1); X.columns.tolist()
prepared_feature_names(d) == SelectSeq(d.columns, LAMBDA c : c # "mental_health_risk")

\* prepare_data: train_test_split(test_size=0.2, stratify=y) raises ValueError
\* when a class has one member or a side of the split has fewer rows than classes
can_split(d) ==
    LET y == Column(d, "mental_health_risk")
        classes == Range(y)
        n_test == (Len(y) + 4) \div 5
    IN  /\ \A c \in classes : Cardinality({i \in DOMAIN y : y[i] = c}) >= 2
        /\ n_test >= Cardinality(classes)
        /\ Len(y) - n_test >= Cardinality(classes)

model_names == <<"logistic_regression", "random_forest", "xgboost">>

\* the names written with nothing between them
feature_names_text_unseparated(names) ==
    Concat([i \in DOMAIN names |-> Chars(names[i])])

\* what save_models writes to feature_names_<timestamp>.txt
feature_names_text(names) ==
    Concat([i \in DOMAIN names |-> Chars(names[i]) \o <<"\n">>])

\* the files save_models writes, in the order it writes them; a joblib file
\* is kept as the feature names the object was fitted on
saved_files(names, timestamp) ==
    [i \in DOMAIN model_names |->
        [kind |-> model_names[i], timestamp |-> timestamp, content |-> names]]
    \o << [kind |-> "scaler", timestamp |-> timestamp, content |-> names],
          [kind |-> "best_model", timestamp |-> timestamp, content |-> names],
          [kind |-> "feature_names", timestamp |-> timestamp,
           content |-> feature_names_text(names)] >>

TrainerLoadData ==
    /\ call = "clean_data" /\ pc = "done"
    /\ call' = "train_and_evaluate"
    /\ df' = trainer_load_data(output[1])
    /\ pc' = "prepare_data"
    /\ UNCHANGED <<file, arg, cleanerVars, output, trainerVars, appVars,
                   restVars, predictVars>>

PrepareData ==
    /\ call = "train_and_evaluate" /\ pc = "prepare_data"
    /\ IF ~HasCol(df, "mental_health_risk")
       THEN pc' = "KeyError" /\ UNCHANGED trainer_feature_names
       ELSE /\ trainer_feature_names' = prepared_feature_names(df)
            /\ pc' = IF can_split(df) THEN "save_models" ELSE "ValueError"
    /\ UNCHANGED <<call, file, arg, df, cleanerVars, output, models_dir, appVars,
                   restVars, predictVars>>

\* the models are trained, evaluated and the best one selected in between;
\* none of that writes feature_names
SaveModels ==
    /\ call = "train_and_evaluate" /\ pc = "save_models"
    /\ models_dir' = models_dir \o saved_files(trainer_feature_names, Len(models_dir) + 1)
    /\ pc' = "trained"
    /\ UNCHANGED <<call, file, arg, df, cleanerVars, output, trainer_feature_names, appVars,
                   restVars, predictVars>>

----------------------------------------------------------------------------
(* select_best_model on the evaluation of one to three models, each F1 in  *)
(* quarters of F1Steps: 0, 1/F1Steps, ..., 1.                              *)

F1Steps == 4

\* evaluation_results.items() as <<name, F1 numerator>>, in the dict's order
Evaluations ==
    UNION {{[i \in 1..n |-> <<model_names[i], f[i]>>] : f \in [1..n -> 0..F1Steps]} :
             n \in 1..Len(model_names)}

\* the loop of select_best_model: <<best_score, best_model_name>> after the
\* first k items, starting from <<0, None>>
RECURSIVE best_after(_, _)
best_after(items, k) ==
    IF k = 0 THEN <<0, "None">>
    ELSE LET best == best_after(items, k - 1)
         IN  IF items[k][2] > best[1] THEN <<items[k][2], items[k][1]>> ELSE best

\* evaluation_results[best_model_name] raises KeyError when the name is None
SelectBestModel ==
    /\ pc = "select_best_model"
    /\ LET best == best_after(evaluation_results, Len(evaluation_results))
       IN  IF HasKey(evaluation_results, best[2])
           THEN best_model_name' = best[2] /\ pc' = "return"
           ELSE best_model_name' = best_model_name /\ pc' = "KeyError"
    /\ UNCHANGED <<call, file, arg, df, cleanerVars, output, trainerVars, appVars,
                   evaluation_results, previous, mainVars, predictVars>>

InitSelect ==
    /\ pc = "select_best_model"
    /\ call = "select_best_model"
    /\ file = NoFile
    /\ arg = EmptyFrame
    /\ df = EmptyFrame
    /\ categorical_columns = <<>>
    /\ numerical_columns = <<>>
    /\ label_encoders = NoEncoders
    /\ output = <<>>
    /\ trainer_feature_names = <<>>
    /\ models_dir = <<>>
    /\ app_feature_names = <<>>
    /\ user_input = NoAnswers
    /\ processed = EmptyFrame
    /\ previous = <<>>
    /\ evaluation_results \in Evaluations
    /\ best_model_name = "None"
    /\ step = "none"
    /\ results = <<>>
    /\ exit_status = -1
    /\ loaded = NoArtifacts
    /\ prediction = "unset"
    /\ displayed = FALSE

NextSelect == SelectBestModel

SpecSelect == InitSelect /\ [][NextSelect]_vars

----------------------------------------------------------------------------
(* MentalHealthPredictorApp *)

\* glob.glob("models/<kind>_*"): the files of a kind, oldest first
glob(dir, kind) == SelectSeq(dir, LAMBDA f : f.kind = kind)
\* max(files, key=os.path.getctime)
latest(files) == files[Len(files)]

\* load_model: the names read from a feature-name file
loaded_feature_names(content) ==
    LET lines == readlines(content)
    IN  [i \in DOMAIN lines |-> Text(strip(lines[i]))]

\* the content of a file that joblib.load or readlines raises on
Corrupt == <<"(unreadable)">>

\* a loader that takes whatever the file holds
readable_always(f) == TRUE

readable(f) == f.content # Corrupt

\* load_model: any of the three kinds missing returns False; an exception
\* while loading returns False with the attributes assigned so far
LoadModel ==
    /\ pc \in {"trained", "interrupted", "load_model"}
    /\ call' = "run"
    /\ LET model_files == glob(models_dir, "best_model")
           scaler_files == glob(models_dir, "scaler")
           feature_files == glob(models_dir, "feature_names")
       IN  IF model_files = <<>> \/ scaler_files = <<>> \/ feature_files = <<>>
           THEN pc' = "stopped" /\ UNCHANGED <<app_feature_names, loaded>>
           ELSE IF ~readable(latest(model_files))
           THEN pc' = "stopped" /\ UNCHANGED <<app_feature_names, loaded>>
           ELSE IF ~readable(latest(scaler_files))
           THEN /\ loaded' = [loaded EXCEPT !.model = Artifact(latest(model_files).content)]
                /\ pc' = "stopped"
                /\ UNCHANGED app_feature_names
           ELSE /\ loaded' = [model |-> Artifact(latest(model_files).content),
                              scaler |-> Artifact(latest(scaler_files).content)]
                /\ IF ~readable(latest(feature_files))
                   THEN pc' = "stopped" /\ UNCHANGED app_feature_names
                   ELSE /\ app_feature_names'
                              = loaded_feature_names(latest(feature_files).content)
                        /\ pc' = "create_input_form"
    /\ UNCHANGED <<file, arg, df, cleanerVars, output, trainerVars, user_input, processed,
                   restVars, prediction, displayed>>

\* create_input_form: the widgets in the order of the returned dict, each
\* with the values it can return (the first is the one shown first)
form_fields ==
    << <<"Age", <<N(30), N(18), N(80)>> >>,
       <<"Gender", <<S("Male"), S("Female"), S("Other")>> >>,
       <<"is_remote_worker", <<N(0), N(1)>> >>,
       <<"tech_company", <<N(0), N(1)>> >>,
       <<"no_employees", <<S("1-5"), S("6-25"), S("26-100"), S("100-500"),
                           S("500-1000"), S("More than 1000")>> >>,
       <<"work_interfere", <<S("Never"), S("Rarely"), S("Sometimes"), S("Often")>> >>,
       <<"family_history", <<N(0), N(1)>> >>,
       <<"benefits", <<S("No"), S("Yes"), S("Don't know")>> >>,
       <<"care_options", <<S("No"), S("Yes"), S("Not sure")>> >>,
       <<"wellness_program", <<S("No"), S("Yes"), S("Don't know")>> >>,
       <<"seek_help", <<S("No"), S("Yes"), S("Don't know")>> >>,
       <<"anonymity", <<S("No"), S("Yes"), S("Don't know")>> >>,
       <<"leave", <<S("Very easy"), S("Somewhat easy"), S("Somewhat difficult"),
                    S("Very difficult"), S("Don't know")>> >>,
       <<"mental_health_consequence", <<S("No"), S("Yes"), S("Maybe")>> >>,
       <<"coworkers", <<S("No"), S("Yes"), S("Some of them")>> >>,
       <<"supervisor", <<S("No"), S("Yes"), S("Some of them")>> >>,
       <<"mental_health_interview", <<S("No"), S("Yes"), S("Maybe")>> >>,
       <<"obs_consequence", <<N(0), N(1)>> >> >>

form_columns == [i \in DOMAIN form_fields |-> form_fields[i][1]]

categorical_mappings ==
    << <<"Gender", << <<"Male", N(0)>>, <<"Female", N(1)>>, <<"Other", N(2)>> >> >>,
       <<"no_employees", << <<"1-5", N(1)>>, <<"6-25", N(2)>>, <<"26-100", N(3)>>,
                            <<"100-500", N(4)>>, <<"500-1000", N(5)>>,
                            <<"More than 1000", N(6)>> >> >>,
       <<"work_interfere", << <<"Never", N(0)>>, <<"Rarely", N(1)>>, <<"Sometimes", N(2)>>,
                              <<"Often", N(3)>> >> >>,
       <<"benefits", << <<"No", N(0)>>, <<"Yes", N(1)>>, <<"Don't know", X(5)>>,
                        <<"Not sure", X(5)>> >> >>,
       <<"care_options", << <<"No", N(0)>>, <<"Yes", N(1)>>, <<"Don't know", X(5)>>,
                            <<"Not sure", X(5)>> >> >>,
       <<"wellness_program", << <<"No", N(0)>>, <<"Yes", N(1)>>, <<"Don't know", X(5)>> >> >>,
       <<"seek_help", << <<"No", N(0)>>, <<"Yes", N(1)>>, <<"Don't know", X(5)>> >> >>,
       <<"anonymity", << <<"No", N(0)>>, <<"Yes", N(1)>>, <<"Don't know", X(5)>> >> >>,
       <<"leave", << <<"Very easy", N(0)>>, <<"Somewhat easy", N(1)>>,
                     <<"Somewhat difficult", N(2)>>, <<"Very difficult", N(3)>>,
                     <<"Don't know", X(15)>> >> >>,
       <<"mental_health_consequence",
         << <<"No", N(0)>>, <<"Yes", N(1)>>, <<"Maybe", X(5)>> >> >>,
       <<"coworkers", << <<"No", N(0)>>, <<"Yes", N(1)>>, <<"Some of them", X(5)>> >> >>,
       <<"supervisor", << <<"No", N(0)>>, <<"Yes", N(1)>>, <<"Some of them", X(5)>> >> >>,
       <<"mental_health_interview",
         << <<"No", N(0)>>, <<"Yes", N(1)>>, <<"Maybe", X(5)>> >> >> >>

\* df[support_features].sum(axis=1): NaN cells are skipped
RECURSIVE row_sum(_, _)
row_sum(r, k) ==
    IF k = 0 THEN 0
    ELSE row_sum(r, k - 1)
         + (IF r[support_features[k]].t = "num" THEN r[support_features[k]].x10 ELSE 0)

\* the frame with each name of `names` that is no column added as 0
RECURSIVE with_missing_features(_, _)
with_missing_features(d, names) ==
    IF names = <<>> THEN d
    ELSE with_missing_features(
             IF HasCol(d, Head(names)) THEN d ELSE SetCol(d, Head(names), LAMBDA r : N(0)),
             Tail(names))

\* preprocess_input up to the engineered features
engineered_input(answers) ==
    LET d0 == [columns |-> form_columns, rows |-> <<[index |-> 0, v |-> answers]>>]
        d1 == [columns |-> d0.columns,
               rows |-> [i \in DOMAIN d0.rows |->
                           [index |-> d0.rows[i].index,
                            v |-> [c \in DOMAIN d0.rows[i].v |->
                                     IF HasKey(categorical_mappings, c)
                                     THEN map(Lookup(categorical_mappings, c), d0.rows[i].v[c])
                                     ELSE d0.rows[i].v[c]]]]]
        d2 == SetCol(d1, "work_stress_level", LAMBDA r : r["work_interfere"])
        d3 == SetCol(d2, "company_size_category", LAMBDA r : r["no_employees"])
    IN  SetCol(d3, "mental_health_support_score",
               LAMBDA r : X(row_sum(r, Len(support_features)) \div Len(support_features)))

\* preprocess_input that pads but does not select the manifest's columns
preprocess_input_padded_only(answers, feature_names) ==
    with_missing_features(engineered_input(answers), feature_names)

\* "if self.feature_names:" is false for None and for an empty list
preprocess_input(answers, feature_names) ==
    IF feature_names = <<>> THEN engineered_input(answers)
    ELSE Project(with_missing_features(engineered_input(answers), feature_names),
                 feature_names)

\* the forms of the model: the form as first shown, with one answer changed
Forms ==
    LET first == [c \in Range(form_columns) |->
                     (CHOOSE i \in DOMAIN form_fields : form_fields[i][1] = c)]
        shown == [c \in Range(form_columns) |-> form_fields[first[c]][2][1]]
    IN  UNION {{[shown EXCEPT ![c] = form_fields[first[c]][2][k]] :
                   k \in DOMAIN form_fields[first[c]][2]} : c \in Range(form_columns)}

SubmitForm ==
    /\ call = "run" /\ pc = "create_input_form"
    /\ user_input' \in Forms
    /\ pc' = "preprocess_input"
    /\ UNCHANGED <<call, file, arg, df, cleanerVars, output, trainerVars,
                   app_feature_names, processed,
                   restVars, predictVars>>

PreprocessInput ==
    /\ call = "run" /\ pc = "preprocess_input"
    /\ processed' = preprocess_input(user_input, app_feature_names)
    /\ pc' = "make_prediction"
    /\ UNCHANGED <<call, file, arg, df, cleanerVars, output, trainerVars,
                   app_feature_names, user_input,
                   restVars, predictVars>>

----------------------------------------------------------------------------
(* Cleaning, training and the application, one after the other: a survey   *)
(* of TrainRows answers of both risk classes is cleaned, the trainer saves *)
(* its files, and the application loads them and takes a form.             *)

TrainRows == 10

TrainRow(i) ==
    CASE i % 5 = 1 -> BaseRow
      [] i % 5 = 2 -> [BaseRow EXCEPT !.Gender = "Female", !.treatment = "Yes",
                                      !.remote_work = "Yes"]
      [] i % 5 = 3 -> [BaseRow EXCEPT !.Gender = "queer", !.work_interfere = "Often"]
      [] i % 5 = 4 -> [BaseRow EXCEPT !.Age = "44"]
      [] OTHER     -> [BaseRow EXCEPT !.benefits = "No",
                                      !.mental_health_consequence = "Yes"]

\* columns a survey export may lack (without remote_work clean_data stops)
OptionalColumns == {"Country", "remote_work", "tech_company", "comments", "leave"}

TrainFiles ==
    {[columns |-> SelectSeq(Header, LAMBDA c : c \notin absent),
      cells |-> [i \in 1..TrainRows |->
                   [c \in DOMAIN BaseRow \ absent |-> TrainRow(i)[c]]]] :
        absent \in SUBSET OptionalColumns}

InitEndToEnd ==
    /\ pc = "load_data"
    /\ call = "clean_data"
    /\ file \in TrainFiles
    /\ arg = EmptyFrame
    /\ df = EmptyFrame
    /\ categorical_columns = <<>>
    /\ numerical_columns = <<>>
    /\ label_encoders = NoEncoders
    /\ output = <<>>
    /\ trainer_feature_names = <<>>
    /\ models_dir = <<>>
    /\ app_feature_names = <<>>
    /\ user_input = NoAnswers
    /\ processed = EmptyFrame
    /\ RestInit

NextEndToEnd ==
    \/ LoadData
    \/ IdentifyColumnTypes
    \/ CleanGender
    \/ CleanAge
    \/ CreateTarget
    \/ HandleMissing
    \/ FeatureEngineering
    \/ EncodeCategorical
    \/ SelectFeatures
    \/ SaveCleaned
    \/ TrainerLoadData
    \/ PrepareData
    \/ SaveModels
    \/ LoadModel
    \/ SubmitForm
    \/ PreprocessInput

SpecEndToEnd == InitEndToEnd /\ [][NextEndToEnd]_vars

----------------------------------------------------------------------------
(* The application alone, started on a models directory whose feature-name *)
(* file holds up to MaxManifest names.                                     *)

\* scaler.transform raises on a frame of another width or with text in it;
\* on the scaler's own columns and numbers only, the model answers 0 or 1;
\* on other names of the same width or on missing values the outcome depends
\* on the library version and the model; an exception returns None
MakePrediction ==
    /\ call = "run" /\ pc = "make_prediction"
    /\ LET cells == {processed.rows[i].v[c] :
                        i \in DOMAIN processed.rows, c \in Range(processed.columns)}
           raises == \/ Len(processed.columns) # Len(loaded.scaler.on)
                     \/ \E v \in cells : v.t = "str"
           answers == /\ processed.columns = loaded.scaler.on
                      /\ \A v \in cells : v.t = "num"
       IN  prediction' \in IF raises THEN {"None"}
                           ELSE IF answers THEN {"0", "1"}
                           ELSE {"0", "1", "None"}
    /\ pc' = IF prediction' = "None" THEN "idle" ELSE "display_results"
    /\ UNCHANGED <<call, file, arg, df, cleanerVars, output, trainerVars, appVars,
                   restVars, loaded, displayed>>

\* create_shap_explanation catches its exceptions; then display_results
DisplayResults ==
    /\ call = "run" /\ pc = "display_results"
    /\ displayed' = TRUE
    /\ pc' = "idle"
    /\ UNCHANGED <<call, file, arg, df, cleanerVars, output, trainerVars, appVars,
                   restVars, loaded, prediction>>

ManifestPool == {"Age", "Gender", "remote_work", "Country"}

Manifests == UNION {[1..n -> ManifestPool] : n \in 0..MaxManifest}

\* what a training run on the columns `names` leaves for the application
ModelDir(names) ==
    << [kind |-> "best_model", timestamp |-> 1, content |-> names],
       [kind |-> "scaler", timestamp |-> 1, content |-> names],
       [kind |-> "feature_names", timestamp |-> 1, content |-> feature_names_text(names)] >>

\* a directory with one file gone, with one file unreadable, or with a
\* scaler fit on other columns than the feature-name file lists
BrokenDirs ==
    LET dir == ModelDir(<<"Age", "Gender">>)
    IN  {SelectSeq(dir, LAMBDA f : f.kind # kind) :
            kind \in {"best_model", "scaler", "feature_names"}}
        \cup {[i \in DOMAIN dir |-> IF i = k THEN [dir[i] EXCEPT !.content = Corrupt]
                                    ELSE dir[i]] : k \in DOMAIN dir}
        \cup {[dir EXCEPT ![2].content = on] : on \in {<<"Age">>, <<"Gender", "Age">>}}

ModelDirs == {ModelDir(names) : names \in Manifests} \cup BrokenDirs

InitPredict ==
    /\ pc = "load_model"
    /\ call = "run"
    /\ file = [columns |-> <<>>, cells |-> <<>>]
    /\ arg = EmptyFrame
    /\ df = EmptyFrame
    /\ categorical_columns = <<>>
    /\ numerical_columns = <<>>
    /\ label_encoders = NoEncoders
    /\ output = <<>>
    /\ trainer_feature_names = <<>>
    /\ models_dir \in ModelDirs
    /\ app_feature_names = <<>>
    /\ user_input = NoAnswers
    /\ processed = EmptyFrame
    /\ RestInit

NextPredict ==
    \/ LoadModel
    \/ SubmitForm
    \/ PreprocessInput
    \/ MakePrediction
    \/ DisplayResults

SpecPredict == InitPredict /\ [][NextPredict]_vars

----------------------------------------------------------------------------
(* Training runs one after the other into the same models directory, each  *)
(* on its own columns; a run writes all its files or is stopped after some *)
(* of them; then the application loads what is there.                      *)

MaxTrainings == 2

TrainedColumns == {<<"Age">>, <<"Age", "Gender">>, <<"Gender", "Age">>}

\* the training runs that have written a file
Trainings == {models_dir[i].timestamp : i \in DOMAIN models_dir}

\* the process ends inside save_models, after k of its files are written
SaveModelsInterrupted ==
    /\ call = "train_and_evaluate" /\ pc = "save_models"
    /\ \E k \in 0..(Len(model_names) + 2) :
          models_dir' = models_dir
              \o SubSeq(saved_files(trainer_feature_names, Len(models_dir) + 1), 1, k)
    /\ pc' = "interrupted"
    /\ UNCHANGED <<call, file, arg, df, cleanerVars, output, trainer_feature_names, appVars,
                   restVars, predictVars>>

\* train_and_evaluate is run again, up to its save_models
Retrain ==
    /\ call = "train_and_evaluate" /\ pc \in {"trained", "interrupted"}
    /\ Cardinality(Trainings) < MaxTrainings
    /\ trainer_feature_names' \in TrainedColumns
    /\ pc' = "save_models"
    /\ UNCHANGED <<call, file, arg, df, cleanerVars, output, models_dir, appVars,
                   restVars, predictVars>>

InitRetrain ==
    /\ pc = "save_models"
    /\ call = "train_and_evaluate"
    /\ file = NoFile
    /\ arg = EmptyFrame
    /\ df = EmptyFrame
    /\ categorical_columns = <<>>
    /\ numerical_columns = <<>>
    /\ label_encoders = NoEncoders
    /\ output = <<>>
    /\ trainer_feature_names \in TrainedColumns
    /\ models_dir = <<>>
    /\ app_feature_names = <<>>
    /\ user_input = NoAnswers
    /\ processed = EmptyFrame
    /\ RestInit

NextRetrain ==
    \/ SaveModels
    \/ SaveModelsInterrupted
    \/ Retrain
    \/ LoadModel

SpecRetrain == InitRetrain /\ [][NextRetrain]_vars

----------------------------------------------------------------------------
(* main_pipeline.py: main with its --step argument, on a survey file that  *)
(* cleans and trains, one that clean_data raises on, and a missing one,    *)
(* with no cleaned file yet and the models directory empty or holding an   *)
(* earlier run.                                                            *)

\* run_complete_pipeline's steps in its order, and the method of each
StepOrder == <<"clean", "eda", "train", "explain", "report">>
Run ==
    [clean |-> "run_data_cleaning", eda |-> "run_eda", train |-> "run_model_training",
     explain |-> "run_model_explanation", report |-> "generate_final_report"]

\* a pipeline that goes on to the next step whatever the last one returned
after_step_ignoring_failure(name, success) ==
    IF step = "all" /\ name # "report"
    THEN Run[StepOrder[(CHOOSE i \in DOMAIN StepOrder : StepOrder[i] = name) + 1]]
    ELSE "exit"

\* where main goes when the step `name` returned `success`
after_step(name, success) ==
    IF step = "all" /\ success /\ name # "report"
    THEN Run[StepOrder[(CHOOSE i \in DOMAIN StepOrder : StepOrder[i] = name) + 1]]
    ELSE "exit"

\* the step `name` returns `success` to main
Returns(name, success) ==
    /\ results' = Append(results, <<name, success>>)
    /\ call' = "main"
    /\ pc' = after_step(name, success)
    /\ UNCHANGED <<step, exit_status>>

Main ==
    /\ call = "main" /\ pc = "main"
    /\ pc' = IF step = "all" THEN Run["clean"] ELSE Run[step]
    /\ UNCHANGED <<call, file, arg, df, cleanerVars, output, trainerVars, appVars,
                   restVars, predictVars>>

\* run_data_cleaning: MentalHealthDataCleaner().clean_data(...) inside try
RunDataCleaning ==
    /\ call = "main" /\ pc = "run_data_cleaning"
    /\ call' = "clean_data"
    /\ pc' = "load_data"
    /\ UNCHANGED <<file, arg, df, cleanerVars, output, trainerVars, appVars,
                   restVars, predictVars>>

DataCleaningReturns ==
    /\ call = "clean_data" /\ pc \in Over /\ step # "none"
    /\ Returns("clean", pc = "done")
    /\ UNCHANGED <<file, arg, df, cleanerVars, output, trainerVars, appVars,
                   previous, selectVars, predictVars>>

\* the columns generate_eda_report reads without looking whether they are there
eda_columns == {"mental_health_risk", "Age", "Gender", "is_remote_worker"}

\* run_eda: reading the cleaned file raises when there is none, the analysis
\* when a column it reads is not there; the plots and the summary are
\* written or raise
RunEda ==
    /\ call = "main" /\ pc = "run_eda"
    /\ \E success \in (IF output = <<>> THEN {FALSE}
                       ELSE IF ~(eda_columns \subseteq Range(output[1].columns)) THEN {FALSE}
                       ELSE BOOLEAN) : Returns("eda", success)
    /\ UNCHANGED <<file, arg, df, cleanerVars, output, trainerVars, appVars,
                   previous, selectVars, predictVars>>

\* run_model_training: MentalHealthModelTrainer().train_and_evaluate(...) inside try
RunModelTraining ==
    /\ call = "main" /\ pc = "run_model_training"
    /\ IF output = <<>>
       THEN Returns("train", FALSE) /\ UNCHANGED df
       ELSE /\ call' = "train_and_evaluate"
            /\ df' = trainer_load_data(output[1])
            /\ pc' = "prepare_data"
            /\ UNCHANGED mainVars
    /\ UNCHANGED <<file, arg, cleanerVars, output, trainerVars, appVars,
                   previous, selectVars, predictVars>>

\* select_best_model raises when no model has a positive F1
SelectBestModelRaises ==
    /\ call = "train_and_evaluate" /\ pc = "save_models"
    /\ pc' = "KeyError"
    /\ UNCHANGED <<call, file, arg, df, cleanerVars, output, trainerVars, appVars,
                   restVars, predictVars>>

ModelTrainingReturns ==
    /\ call = "train_and_evaluate" /\ pc \in {"trained", "KeyError", "ValueError"}
    /\ step # "none"
    /\ Returns("train", pc = "trained")
    /\ UNCHANGED <<file, arg, df, cleanerVars, output, trainerVars, appVars,
                   previous, selectVars, predictVars>>

\* run_model_explanation: True without an analysis when a kind of model
\* file is missing; else the analysis completes or raises
RunModelExplanation ==
    /\ call = "main" /\ pc = "run_model_explanation"
    /\ \E success \in (IF \/ glob(models_dir, "best_model") = <<>>
                          \/ glob(models_dir, "scaler") = <<>>
                          \/ glob(models_dir, "feature_names") = <<>>
                       THEN {TRUE} ELSE BOOLEAN) : Returns("explain", success)
    /\ UNCHANGED <<file, arg, df, cleanerVars, output, trainerVars, appVars,
                   previous, selectVars, predictVars>>

\* generate_final_report: the report file is written or open() raises
GenerateFinalReport ==
    /\ call = "main" /\ pc = "generate_final_report"
    /\ \E success \in BOOLEAN : Returns("report", success)
    /\ UNCHANGED <<file, arg, df, cleanerVars, output, trainerVars, appVars,
                   previous, selectVars, predictVars>>

\* sys.exit(0) if success else sys.exit(1)
Exit ==
    /\ call = "main" /\ pc = "exit"
    /\ exit_status' = IF results[Len(results)][2] THEN 0 ELSE 1
    /\ pc' = "exited"
    /\ UNCHANGED <<call, file, arg, df, cleanerVars, output, trainerVars, appVars,
                   previous, selectVars, step, results, predictVars>>

PipelineFiles ==
    {f \in TrainFiles : f.columns \in {Header, Without(Header, "remote_work")}}
    \cup {NoFile}

InitPipeline ==
    /\ pc = "main"
    /\ call = "main"
    /\ file \in PipelineFiles
    /\ arg = EmptyFrame
    /\ df = EmptyFrame
    /\ categorical_columns = <<>>
    /\ numerical_columns = <<>>
    /\ label_encoders = NoEncoders
    /\ output = <<>>
    /\ trainer_feature_names = <<>>
    /\ models_dir \in {<<>>, ModelDir(<<"Age">>)}
    /\ app_feature_names = <<>>
    /\ user_input = NoAnswers
    /\ processed = EmptyFrame
    /\ previous = <<>>
    /\ evaluation_results = <<>>
    /\ best_model_name = "None"
    /\ step \in {"all", "clean", "eda", "train", "explain"}
    /\ results = <<>>
    /\ exit_status = -1
    /\ loaded = NoArtifacts
    /\ prediction = "unset"
    /\ displayed = FALSE

NextPipeline ==
    \/ Main
    \/ RunDataCleaning
    \/ LoadData
    \/ IdentifyColumnTypes
    \/ CleanGender
    \/ CleanAge
    \/ CreateTarget
    \/ HandleMissing
    \/ FeatureEngineering
    \/ EncodeCategorical
    \/ SelectFeatures
    \/ SaveCleaned
    \/ DataCleaningReturns
    \/ RunEda
    \/ RunModelTraining
    \/ PrepareData
    \/ SelectBestModelRaises
    \/ SaveModels
    \/ ModelTrainingReturns
    \/ RunModelExplanation
    \/ GenerateFinalReport
    \/ Exit

SpecPipeline == InitPipeline /\ [][NextPipeline]_vars

----------------------------------------------------------------------------
(* The claims *)

Returned(method) == call = method /\ pc = "return"

\* the states of clean_data in which create_target_variable has returned
LabelDerived ==
    /\ call = "clean_data"
    /\ pc \in {"handle_missing_values", "create_feature_engineering",
               "encode_categorical_variables", "select_features", "to_csv", "done"}

\* the states of clean_data in which clean_age_column has returned
AgeCleaned == (call = "clean_data" /\ pc = "create_target_variable") \/ LabelDerived

\* the row of the file a row of df was read from
RawRow(row) == file.cells[row.index + 1]
\* a file row's Age as a number (in years), when its text is a numeral
HasRawAge(cells) == HasKey(Numerals, cells["Age"])
RawAge(cells) == Lookup(Numerals, cells["Age"])

(* C1: create_target_variable sets mental_health_risk to 1 exactly when    *)
(* treatment = 'Yes' or work_interfere = 'Often' or                        *)
(* mental_health_consequence = 'Yes' or (family_history = 'Yes' and        *)
(* work_interfere is 'Sometimes' or 'Often'), and to 0 otherwise; a        *)
(* missing field matches nothing.                                          *)
C1_TargetRule ==
    Returned("create_target_variable") =>
        \A i \in DOMAIN df.rows :
            LET in == arg.rows[i].v
                high ==
                    \/ in["treatment"] = S("Yes")
                    \/ in["work_interfere"] = S("Often")
                    \/ in["mental_health_consequence"] = S("Yes")
                    \/ (in["family_history"] = S("Yes")
                        /\ in["work_interfere"] \in {S("Sometimes"), S("Often")})
                risk == df.rows[i].v["mental_health_risk"]
            IN  /\ risk \in {N(0), N(1)}
                /\ risk = N(1) <=> high
                /\ df.rows[i].index = arg.rows[i].index

\* the fourth clause alone makes a record high risk
C1_Witness ==
    /\ Returned("create_target_variable")
    /\ arg.rows[1].v = [treatment |-> S("No"), work_interfere |-> S("Sometimes"),
                        mental_health_consequence |-> S("No"), family_history |-> S("Yes")]
    /\ df.rows[1].v["mental_health_risk"] = N(1)

\* the label the rule of create_target_variable gives a row of the file
RuleLabel(cells) ==
    IF \/ cells["treatment"] = "Yes"
       \/ cells["work_interfere"] = "Often"
       \/ cells["mental_health_consequence"] = "Yes"
       \/ (cells["family_history"] = "Yes" /\ cells["work_interfere"] \in {"Sometimes", "Often"})
    THEN N(1) ELSE N(0)

(* C2: in clean_data, once the label is derived, every row's               *)
(* mental_health_risk is the rule's value on that row's own raw treatment, *)
(* work_interfere, mental_health_consequence and family_history, whatever  *)
(* else the file holds (a mental_health_risk column of its own included),  *)
(* and no later stage changes it.                                          *)
C2_LabelOnlyFromFourFields ==
    LabelDerived =>
        \A i \in DOMAIN df.rows :
            df.rows[i].v["mental_health_risk"] = RuleLabel(RawRow(df.rows[i]))

(* C3: after clean_gender_column every row's Gender is Male, Female or     *)
(* Other, for every key of the map, every other text and a missing value.  *)
C3_GenderCodomain ==
    Returned("clean_gender_column") =>
        \A i \in DOMAIN df.rows :
            df.rows[i].v["Gender"] \in {S("Male"), S("Female"), S("Other")}

(* C4: a row of the file whose Age is a number in [15,80] is a row of the  *)
(* table clean_data returns, with that number as its Age, whatever the     *)
(* other rows' Ages are; so every Age of the returned table is in [15,80]. *)
C4_AgeKeptExactly ==
    (call = "clean_data" /\ pc = "done") =>
        /\ \A j \in DOMAIN file.cells :
              (/\ HasRawAge(file.cells[j])
               /\ RawAge(file.cells[j]) >= MinAge
               /\ RawAge(file.cells[j]) <= MaxAge)
              => \E i \in DOMAIN df.rows :
                    /\ df.rows[i].index = j - 1
                    /\ df.rows[i].v["Age"] = N(RawAge(file.cells[j]))
        /\ \A i \in DOMAIN df.rows :
              /\ df.rows[i].v["Age"].t = "num"
              /\ df.rows[i].v["Age"].x10 >= 10 * MinAge
              /\ df.rows[i].v["Age"].x10 <= 10 * MaxAge

(* C5: clean_age_column drops every row whose Age is a number below 15 or  *)
(* above 80: no such row is in the frame afterwards, at any later stage or *)
(* in the written output, and every row clean_age_column returns has       *)
(* 15 <= Age <= 80.                                                        *)
C5_OutliersDropped ==
    AgeCleaned =>
        /\ \A i \in DOMAIN df.rows :
              HasRawAge(RawRow(df.rows[i])) =>
                  /\ RawAge(RawRow(df.rows[i])) >= MinAge
                  /\ RawAge(RawRow(df.rows[i])) <= MaxAge
        /\ pc = "create_target_variable" =>
              \A i \in DOMAIN df.rows :
                  /\ df.rows[i].v["Age"].t = "num"
                  /\ df.rows[i].v["Age"].x10 >= 10 * MinAge
                  /\ df.rows[i].v["Age"].x10 <= 10 * MaxAge
        /\ pc = "done" => output = <<df>>

\* a file of an 81-year-old and a 44-year-old leaves the 44-year-old alone
C5_Witness ==
    /\ call = "clean_data" /\ pc = "done"
    /\ Len(file.cells) = 2
    /\ file.cells[1]["Age"] = "81"
    /\ file.cells[2]["Age"] = "44"
    /\ Index(output[1]) = <<1>>

(* C7: select_features returns the candidate names that are columns of its *)
(* input, in the candidate list's order, then mental_health_risk last; no  *)
(* other column, whatever the order of the input's columns.                *)
C7_SelectedColumns ==
    Returned("select_features") =>
        LET out == df.columns
            place(c) == CHOOSE k \in DOMAIN feature_columns : feature_columns[k] = c
        IN  /\ out # <<>>
            /\ out[Len(out)] = "mental_health_risk"
            /\ {out[i] : i \in 1..(Len(out) - 1)}
                   = Range(feature_columns) \cap Range(arg.columns)
            /\ \A i, j \in 1..(Len(out) - 1) : i < j => place(out[i]) < place(out[j])
            /\ \A i \in DOMAIN df.rows : DOMAIN df.rows[i].v = Range(out)

\* columns given out of the candidate order come back in it
C7_Witness ==
    /\ Returned("select_features")
    /\ arg.columns = <<"mental_health_risk", "mental_health_support_score", "Country", "Age">>
    /\ df.columns = <<"Age", "mental_health_support_score", "mental_health_risk">>

\* the points of one support answer, in tenths
SupportPoints(cells, c) ==
    IF c \notin DOMAIN cells THEN 0
    ELSE IF cells[c] = S("Yes") THEN 10
    ELSE IF cells[c] \in {S("Don't know"), S("Not sure")} THEN 5
    ELSE 0

(* C10: mental_health_support_score is the sum of the points of benefits,  *)
(* care_options, wellness_program, seek_help and anonymity (Yes 1, No 0,   *)
(* "Don't know" and "Not sure" 0.5, anything else, missing or absent 0)    *)
(* divided by 5, however many of the five columns exist: 1.0 for five      *)
(* 'Yes', 0.0 for five 'No', and always within [0,1].                      *)
C10_SupportScore ==
    Returned("create_feature_engineering") =>
        \A i \in DOMAIN df.rows :
            LET in == arg.rows[i].v
                total == SupportPoints(in, "benefits") + SupportPoints(in, "care_options")
                         + SupportPoints(in, "wellness_program")
                         + SupportPoints(in, "seek_help") + SupportPoints(in, "anonymity")
                score == df.rows[i].v["mental_health_support_score"]
            IN  /\ score.t = "num"
                /\ 5 * score.x10 = total
                /\ score.x10 >= 0 /\ score.x10 <= 10
                /\ (\A c \in Range(support_features) : c \in DOMAIN in /\ in[c] = S("Yes"))
                       => score = N(1)
                /\ (\A c \in Range(support_features) : c \in DOMAIN in /\ in[c] = S("No"))
                       => score = N(0)

\* two of the five columns exist, Yes and Not sure: 1.5 / 5 = 0.3
C10_Witness ==
    /\ Returned("create_feature_engineering")
    /\ DOMAIN arg.rows[1].v \cap Range(support_features) = {"benefits", "care_options"}
    /\ arg.rows[1].v["benefits"] = S("Yes")
    /\ arg.rows[1].v["care_options"] = S("Not sure")
    /\ df.rows[1].v["mental_health_support_score"] = X(3)

\* the application has preprocessed a submitted form
Preprocessed == call = "run" /\ pc = "make_prediction"

(* C6: for every column the cleaner label-encoded and the form supplies,   *)
(* and every answer the fitted encoder knows, the number preprocess_input  *)
(* places in that column is the code the fitted encoder gives the answer.  *)
C6_SameCategoricalMaps ==
    Preprocessed =>
        \A c \in (DOMAIN label_encoders \cap DOMAIN user_input)
                     \cap Range(processed.columns) :
            (\E i \in DOMAIN label_encoders[c] : label_encoders[c][i] = user_input[c])
                => processed.rows[1].v[c] = N(transform(label_encoders[c], user_input[c]))

\* the columns preprocess_input has before the manifest is applied
form_output_columns ==
    form_columns \o <<"work_stress_level", "company_size_category",
                      "mental_health_support_score">>

C9_ManifestIsCleanedColumns ==
    (call = "run" /\ pc # "stopped") =>
        LET cleaned == output[1].columns
            manifest == latest(glob(models_dir, "feature_names")).content
        IN  /\ Len(app_feature_names) = Len(cleaned) - 1
            /\ cleaned[Len(cleaned)] = "mental_health_risk"
            /\ \A i \in DOMAIN app_feature_names : app_feature_names[i] = cleaned[i]
            /\ app_feature_names = trainer_feature_names
            /\ Cardinality({k \in DOMAIN manifest : manifest[k] = "\n"})
                   = Len(app_feature_names)

\* a survey without a leave column: the names written are read back,
\* from Age to mental_health_support_score, leave not among them
C9_Witness ==
    /\ call = "run" /\ pc = "create_input_form"
    /\ "leave" \notin Range(file.columns)
    /\ "tech_company" \in Range(file.columns)
    /\ app_feature_names = prepared_feature_names(output[1])
    /\ Len(app_feature_names) > Cardinality(ManifestPool)
    /\ app_feature_names[1] = "Age"
    /\ app_feature_names[Len(app_feature_names)] = "mental_health_support_score"
    /\ "leave" \notin Range(app_feature_names)

(* C11: for every record create_feature_engineering sets is_remote_worker *)
(* to 1 if remote_work is 'Yes' and to 0 otherwise; work_stress_level to   *)
(* 0, 1, 2, 3 for Never, Rarely, Sometimes, Often and to 1 for any other   *)
(* or missing value; company_size_category to 1..6 for the six buckets and *)
(* to 3 for any other or missing value; so the level is within 0..3 and    *)
(* the category within 1..6.                                               *)
C11_DerivedFeatures ==
    Returned("create_feature_engineering") =>
        \A i \in DOMAIN df.rows :
            LET in == arg.rows[i].v
                out == df.rows[i].v
                level == CASE in["work_interfere"] = S("Never") -> 0
                           [] in["work_interfere"] = S("Rarely") -> 1
                           [] in["work_interfere"] = S("Sometimes") -> 2
                           [] in["work_interfere"] = S("Often") -> 3
                           [] OTHER -> 1
                size == CASE in["no_employees"] = S("1-5") -> 1
                          [] in["no_employees"] = S("6-25") -> 2
                          [] in["no_employees"] = S("26-100") -> 3
                          [] in["no_employees"] = S("100-500") -> 4
                          [] in["no_employees"] = S("500-1000") -> 5
                          [] in["no_employees"] = S("More than 1000") -> 6
                          [] OTHER -> 3
            IN  /\ out["is_remote_worker"]
                       = (IF in["remote_work"] = S("Yes") THEN N(1) ELSE N(0))
                /\ out["work_stress_level"] = N(level)
                /\ out["company_size_category"] = N(size)
                /\ out["work_stress_level"].x10 \in {N(k).x10 : k \in 0..3}
                /\ out["company_size_category"].x10 \in {N(k).x10 : k \in 1..6}

\* answers in another case and a missing company size get the defaults
C11_Witness ==
    /\ Returned("create_feature_engineering")
    /\ arg.rows[1].v = [work_interfere |-> S("often"), no_employees |-> NaN,
                        remote_work |-> S("yes")]
    /\ df.rows[1].v["work_stress_level"] = N(1)
    /\ df.rows[1].v["company_size_category"] = N(3)
    /\ df.rows[1].v["is_remote_worker"] = N(0)

(* C12: after handle_missing_values no column classified as categorical  *)
(* holds a missing value: each missing entry of such a column is the text  *)
(* 'Unknown', every other entry is as it was, and the records are those of *)
(* the input, none dropped.                                                *)
C12_CategoricalFilled ==
    Returned("handle_missing_values") =>
        /\ df.columns = arg.columns
        /\ Index(df) = Index(arg)
        /\ \A c \in Range(categorical_columns) \cap Range(df.columns) :
               \A i \in DOMAIN df.rows :
                   /\ ~isna(df.rows[i].v[c])
                   /\ df.rows[i].v[c] = IF isna(arg.rows[i].v[c]) THEN S("Unknown")
                                        ELSE arg.rows[i].v[c]

\* a record without a Country stays, its Country 'Unknown'
C12_Witness ==
    /\ Returned("handle_missing_values")
    /\ "Country" \in Range(categorical_columns)
    /\ Column(arg, "Country") = <<S("US"), NaN>>
    /\ Column(df, "Country") = <<S("US"), S("Unknown")>>

(* C13: after handle_missing_values no column classified as numerical,    *)
(* mental_health_risk apart, holds a missing value, whatever the input     *)
(* table: a column with no present value at all included.                  *)
C13_NumericalFilled ==
    Returned("handle_missing_values") =>
        \A c \in (Range(numerical_columns) \cap Range(df.columns)) \ {"mental_health_risk"} :
            \A i \in DOMAIN df.rows : ~isna(df.rows[i].v[c])

(* C14: clean_gender_column turns every Gender text that is not a key of  *)
(* the fixed map, and every missing Gender, into 'Other', by exact lookup  *)
(* (a key in another case is not a key); the record stays; 'M' becomes     *)
(* Male, 'f' Female and 'non-binary' Other.                                *)
C14_UnknownGenderIsOther ==
    Returned("clean_gender_column") =>
        /\ Index(df) = Index(arg)
        /\ \A i \in DOMAIN df.rows :
               LET in == arg.rows[i].v["Gender"]
                   out == df.rows[i].v["Gender"]
               IN  /\ (isna(in) \/ ~HasKey(gender_mapping, in.s)) => out = S("Other")
                   /\ in = S("MALE") => out = S("Other")
                   /\ in = S("M") => out = S("Male")
                   /\ in = S("f") => out = S("Female")
                   /\ in = S("non-binary") => out = S("Other")

\* 'MALE' is no key of the map, though 'Male' and 'male' are
C14_Witness ==
    /\ Returned("clean_gender_column")
    /\ arg.rows[1].v["Gender"] = S("MALE")
    /\ HasKey(gender_mapping, "Male") /\ HasKey(gender_mapping, "male")
    /\ df.rows[1].v["Gender"] = S("Other")
    /\ Len(df.rows) = 1

(* C15: encode_categorical_variables replaces each value of a categorical *)
(* column by the number of distinct values of that column, taken as texts, *)
(* that sort before it: distinct values get distinct codes, and the codes  *)
(* of a column with k distinct values are exactly 0..k-1.                  *)
C15_CodesAreSortedRanks ==
    Returned("encode_categorical_variables") =>
        \A c \in Range(categorical_columns) \cap Range(df.columns) :
            LET text == [i \in DOMAIN arg.rows |-> astype_str(arg.rows[i].v[c])]
                code == [i \in DOMAIN df.rows |-> df.rows[i].v[c]]
                k == Cardinality(Range(text))
            IN  /\ \A i \in DOMAIN code :
                       code[i] = N(Cardinality({w \in Range(text) : StrLess(w, text[i])}))
                /\ \A i, j \in DOMAIN code : code[i] = code[j] <=> text[i] = text[j]
                /\ Range(code) = {N(n) : n \in 0..(k - 1)}

\* 'US' sorts before 'United States', whichever comes first in the column
C15_Witness ==
    /\ Returned("encode_categorical_variables")
    /\ Column(arg, "Country") = <<S("United States"), S("US")>>
    /\ Column(df, "Country") = <<N(1), N(0)>>

(* C16: for every categorical column and every value seen when its map   *)
(* was fitted, decoding the value's code through the map kept in           *)
(* label_encoders under the column's name gives back the value's text:     *)
(* the original string, for a value that is a string.                      *)
C16_DecodeRecoversValue ==
    Returned("encode_categorical_variables") =>
        \A c \in Range(categorical_columns) \cap Range(df.columns) :
            /\ c \in DOMAIN label_encoders
            /\ \A i \in DOMAIN df.rows :
                   LET code == df.rows[i].v[c].x10 \div 10
                       decoded == inverse_transform(label_encoders[c], code)
                   IN  /\ code + 1 \in DOMAIN label_encoders[c]
                       /\ decoded = astype_str(arg.rows[i].v[c])
                       /\ arg.rows[i].v[c].t = "str" => decoded = arg.rows[i].v[c]

\* two countries are fitted and both decode to themselves
C16_Witness ==
    /\ Returned("encode_categorical_variables")
    /\ "Country" \in DOMAIN label_encoders
    /\ label_encoders["Country"] = <<S("US"), S("United States")>>
    /\ Column(arg, "Country") = <<S("US"), S("United States")>>
    /\ inverse_transform(label_encoders["Country"], 1) = S("United States")

(* C17: in clean_data, once encode_categorical_variables has returned,    *)
(* every categorical column of the table holds whole-number codes only and *)
(* label_encoders has a fitted map under its name; and no cell of the      *)
(* table clean_data returns is a string.                                   *)
C17_OutputIsNumeric ==
    call = "clean_data" =>
        /\ pc \in {"select_features", "to_csv", "done"} =>
               \A c \in Range(categorical_columns) \cap Range(df.columns) :
                   /\ c \in DOMAIN label_encoders
                   /\ \A i \in DOMAIN df.rows :
                          /\ df.rows[i].v[c].t = "num"
                          /\ df.rows[i].v[c].x10 % 10 = 0
                          /\ df.rows[i].v[c].x10 \div 10 + 1 \in DOMAIN label_encoders[c]
        /\ pc = "done" =>
               \A c \in Range(output[1].columns) :
                   \A i \in DOMAIN output[1].rows : output[1].rows[i].v[c].t # "str"

\* a survey answered 'f' and 'queer': Gender comes back as the codes 0 and 1
C17_Witness ==
    /\ call = "clean_data" /\ pc = "done"
    /\ Len(file.cells) = 2
    /\ file.cells[1]["Gender"] = "f" /\ file.cells[2]["Gender"] = "queer"
    /\ label_encoders["Gender"] = <<S("Female"), S("Other")>>
    /\ Column(output[1], "Gender") = <<N(0), N(1)>>
    /\ Column(output[1], "work_interfere") = <<N(0), N(0)>>

(* C18: clean_data completes without error when a column the cleaning     *)
(* steps read (remote_work among them) is absent from the survey.          *)
C18_AbsentColumnTolerated ==
    call = "clean_data" => pc # "KeyError"

(* C19: identify_column_types does not return normally on a table with no  *)
(* columns.                                                                *)
C19_EmptyTableRejected ==
    ~(Returned("identify_column_types") /\ arg.columns = <<>>)

(* C20: identify_column_types yields two disjoint lists of column names:   *)
(* the categorical one holds the string-valued columns other than          *)
(* Timestamp and comments, the numerical one the numeric columns; the call *)
(* returns whether or not Timestamp or comments is a column.               *)
C20_ColumnTypes ==
    Returned("identify_column_types") =>
        LET text(c) == \E i \in DOMAIN arg.rows : arg.rows[i].v[c].t = "str"
        IN  /\ Range(categorical_columns) \cap Range(numerical_columns) = {}
            /\ Range(categorical_columns)
                   = {c \in Range(arg.columns) : text(c)} \ {"Timestamp", "comments"}
            /\ Range(numerical_columns) = {c \in Range(arg.columns) : ~text(c)}
            /\ Len(categorical_columns) = Cardinality(Range(categorical_columns))
            /\ Len(numerical_columns) = Cardinality(Range(numerical_columns))
            /\ df = arg

\* no Timestamp column, and a comments column of text that is left out
C20_Witness ==
    /\ Returned("identify_column_types")
    /\ arg.columns = <<"Age", "Country", "comments">>
    /\ arg.rows[1].v["comments"] = S("abc")
    /\ categorical_columns = <<"Country">>
    /\ numerical_columns = <<"Age">>

\* the Age text of a raw row is neither empty nor a number
UnparseableAge(cells) == cells["Age"] # "" /\ ~HasRawAge(cells)

(* C23: a row whose Age text cannot be parsed stays in the record set      *)
(* after clean_age_column, with a numeric Age (the median of the Ages that *)
(* passed the range filter).                                               *)
C23_UnparseableAgeKept ==
    AgeCleaned =>
        \A j \in DOMAIN file.cells :
            UnparseableAge(file.cells[j]) =>
                \E i \in DOMAIN df.rows :
                    /\ df.rows[i].index = j - 1
                    /\ df.rows[i].v["Age"].t = "num"

\* the raw Age of a row is a number in [15, 80]
RawAgeInRange(cells) ==
    HasRawAge(cells) /\ RawAge(cells) >= 15 /\ RawAge(cells) <= 80

\* the positions, counted from 0, of the raw rows with an Age in [15, 80]
RowsInRange ==
    SelectSeq([j \in DOMAIN file.cells |-> j - 1],
              LAMBDA k : RawAgeInRange(file.cells[k + 1]))

StageOrder ==
    <<"load_data", "identify_column_types", "clean_gender_column", "clean_age_column",
      "create_target_variable", "handle_missing_values", "create_feature_engineering",
      "encode_categorical_variables", "select_features", "to_csv", "done">>

\* the stress level of a work_interfere answer as text
StressOfAnswer ==
    << <<"Never", 0>>, <<"Rarely", 1>>, <<"Sometimes", 2>>, <<"Often", 3>> >>

(* C24: clean_data goes through its stages one at a time in the order      *)
(* identify, gender, age, label, imputation, feature engineering,          *)
(* encoding, selection (a stage either hands over to the next one or       *)
(* raises); when the imputation starts every row has an Age in [15, 80];   *)
(* when the encoding starts work_interfere still holds text, and from then *)
(* on work_stress_level is the level of the raw work_interfere answer.     *)
C24_StageOrder ==
    /\ [][call = "clean_data" /\ pc' # pc =>
            \E i \in 1..(Len(StageOrder) - 1) :
                /\ pc = StageOrder[i]
                /\ pc' \in {StageOrder[i + 1], "KeyError", "TypeError"}]_vars
    /\ [](call = "clean_data" /\ pc = "handle_missing_values" =>
            \A i \in DOMAIN df.rows :
                /\ df.rows[i].v["Age"].t = "num"
                /\ df.rows[i].v["Age"].x10 >= 150
                /\ df.rows[i].v["Age"].x10 <= 800)
    /\ [](call = "clean_data" /\ pc = "encode_categorical_variables" =>
            \A i \in DOMAIN df.rows : df.rows[i].v["work_interfere"].t # "num")
    /\ [](call = "clean_data"
            /\ pc \in {"encode_categorical_variables", "select_features", "to_csv", "done"} =>
            \A i \in DOMAIN df.rows :
                HasKey(StressOfAnswer, RawRow(df.rows[i])["work_interfere"]) =>
                    df.rows[i].v["work_stress_level"]
                        = N(Lookup(StressOfAnswer, RawRow(df.rows[i])["work_interfere"])))

\* an "Often" answer ends as stress level 3 next to its encoded column
C24_Witness ==
    /\ call = "clean_data" /\ pc = "done"
    /\ Len(file.cells) = 1
    /\ file.cells[1]["work_interfere"] = "Often"
    /\ df.rows[1].v["work_stress_level"] = N(3)
    /\ df.rows[1].v["work_interfere"].t = "num"

\* the cleaner state the current clean_data call started with
AtCallStart ==
    IF previous = <<>> THEN <<<<>>, <<>>, NoEncoders>> ELSE previous[Len(previous)].left

(* C21: a clean_data call that is over ended as every earlier call on the  *)
(* same file did, on this cleaner or another: the same outcome, the same   *)
(* table, and, when it returned, the same written file and the same        *)
(* feature names read from it.                                             *)
C21_SameInputSameOutput ==
    (call = "clean_data" /\ pc \in Over) =>
        \A i \in DOMAIN previous :
            previous[i].file = file =>
                /\ previous[i].outcome = pc
                /\ previous[i].table = df
                /\ pc = "done" =>
                      /\ output = <<previous[i].table>>
                      /\ prepared_feature_names(trainer_load_data(output[1]))
                             = prepared_feature_names(trainer_load_data(previous[i].table))

\* the first file cleaned again, on a cleaner that has cleaned another file
\* with other columns in between
C21_Witness ==
    /\ call = "clean_data" /\ pc = "done"
    /\ Len(previous) = 2
    /\ previous[1].file = file
    /\ previous[2].file.columns # file.columns
    /\ previous[2].outcome = "done"
    /\ previous[1].left[3] # NoEncoders
    /\ previous[2].left[3] # NoEncoders
    /\ df.rows # <<>>

(* C22: a clean_data call on a path with no file goes from load_data       *)
(* straight to FileNotFoundError: it has no table, the written file is the *)
(* one that was there before the call (or none), and the column lists and  *)
(* label_encoders are those the call started with.                         *)
C22_MissingFileRaises ==
    (call = "clean_data" /\ file = NoFile) =>
        /\ pc \in {"load_data", "FileNotFoundError"}
        /\ df = EmptyFrame
        /\ <<categorical_columns, numerical_columns, label_encoders>> = AtCallStart
        /\ output = IF \E i \in DOMAIN previous : previous[i].outcome = "done"
                    THEN <<previous[CHOOSE i \in DOMAIN previous :
                                       /\ previous[i].outcome = "done"
                                       /\ \A k \in DOMAIN previous :
                                              previous[k].outcome = "done" => k <= i].table>>
                    ELSE <<>>

\* the missing path given to a cleaner that has just cleaned a file
C22_Witness ==
    /\ call = "clean_data" /\ pc = "FileNotFoundError"
    /\ previous # <<>>
    /\ previous[Len(previous)].outcome = "done"
    /\ label_encoders # NoEncoders
    /\ categorical_columns # <<>>
    /\ output # <<>>

(* C29: once encode_categorical_variables has run in a clean_data call,    *)
(* the keys of label_encoders are the categorical columns of that call and *)
(* no others.                                                              *)
C29_NoLeftoverEncoders ==
    (call = "clean_data" /\ pc \in {"select_features", "to_csv", "done"}) =>
        DOMAIN label_encoders = Range(categorical_columns)

(* C25: select_best_model returns, for every F1 of every model, zeros      *)
(* included, and the name it returns is that of the first model in the     *)
(* dict's order whose F1 is the largest.                                   *)
C25_BestIsFirstMaxF1 ==
    (call = "select_best_model" /\ pc # "select_best_model") =>
        /\ pc = "return"
        /\ \E k \in DOMAIN evaluation_results :
              /\ evaluation_results[k][1] = best_model_name
              /\ \A j \in DOMAIN evaluation_results :
                    /\ evaluation_results[j][2] <= evaluation_results[k][2]
                    /\ j < k => evaluation_results[j][2] < evaluation_results[k][2]

\* the newest file of a kind in the models directory is there and loads
Loads(kind) ==
    /\ glob(models_dir, kind) # <<>>
    /\ latest(glob(models_dir, kind)).content # Corrupt

(* C27: in a run of the application the form is shown, the input           *)
(* preprocessed and a prediction requested only after load_model returned  *)
(* True with model, scaler and feature_names set from the newest files;    *)
(* when one of the three kinds of file is missing or fails to load, the    *)
(* run stops before the form and predicts nothing; display_results is      *)
(* invoked only with a prediction that is not None.                        *)
C27_PredictOnlyWhenLoaded ==
    call = "run" =>
        /\ (pc \in {"create_input_form", "preprocess_input", "make_prediction",
                    "display_results", "idle"} \/ prediction # "unset") =>
              /\ loaded.model = Artifact(latest(glob(models_dir, "best_model")).content)
              /\ loaded.scaler = Artifact(latest(glob(models_dir, "scaler")).content)
              /\ app_feature_names
                    = loaded_feature_names(latest(glob(models_dir, "feature_names")).content)
        /\ ~(Loads("best_model") /\ Loads("scaler") /\ Loads("feature_names")) =>
              /\ pc \in {"load_model", "stopped"}
              /\ user_input = NoAnswers
              /\ processed = EmptyFrame
              /\ prediction = "unset"
              /\ ~displayed
        /\ (pc = "display_results" \/ displayed) => prediction \in {"0", "1"}
        /\ (pc = "idle" /\ prediction = "None") => ~displayed

\* a prediction of 1 on a two-column manifest has been displayed
C27_Witness ==
    /\ call = "run" /\ pc = "idle"
    /\ displayed
    /\ prediction = "1"
    /\ app_feature_names = <<"Age", "Gender">>
    /\ loaded.scaler = Artifact(<<"Age", "Gender">>)

(* C28: whenever load_model has returned True, the best_model, scaler and  *)
(* feature-name files it took (the newest of each kind) carry the same     *)
(* timestamp, and the scaler is fit on the columns the list names.         *)
C28_LoadedFromOneRun ==
    (call = "run" /\ pc = "create_input_form") =>
        /\ latest(glob(models_dir, "best_model")).timestamp
              = latest(glob(models_dir, "scaler")).timestamp
        /\ latest(glob(models_dir, "scaler")).timestamp
              = latest(glob(models_dir, "feature_names")).timestamp
        /\ loaded.scaler.on = app_feature_names

\* what the selected step or pipeline returned, once main is at its exit
Success ==
    IF step = "all"
    THEN Len(results) = 5 /\ \A i \in DOMAIN results : results[i][2]
    ELSE results = <<<<step, TRUE>>>>

\* the steps that have returned before the one main is in
StepsBefore ==
    CASE call = "clean_data" \/ pc \in {"main", "run_data_cleaning"} -> 0
      [] call = "main" /\ pc = "run_eda" -> 1
      [] call = "train_and_evaluate" \/ pc = "run_model_training" -> 2
      [] call = "main" /\ pc = "run_model_explanation" -> 3
      [] call = "main" /\ pc = "generate_final_report" -> 4
      [] OTHER -> Len(results)

(* C26: in run_complete_pipeline the steps return in the order cleaning,   *)
(* EDA, training, explanation, report; a step is entered only when all the *)
(* steps before it have returned True, so nothing runs after the first     *)
(* False; main exits once, with status 0 when the pipeline returned True   *)
(* (all five steps did) or the single selected step did, and with 1        *)
(* otherwise.                                                              *)
C26_PipelineOrderAndExit ==
    step # "none" =>
        /\ step = "all" =>
              /\ Len(results) <= 5
              /\ \A i \in DOMAIN results :
                    /\ results[i][1] = StepOrder[i]
                    /\ i < Len(results) => results[i][2]
              /\ pc \notin {"exit", "exited"} =>
                    /\ Len(results) = StepsBefore
                    /\ \A i \in DOMAIN results : results[i][2]
        /\ step # "all" =>
              /\ Len(results) <= 1
              /\ pc \notin {"exit", "exited"} => results = <<>>
              /\ \A i \in DOMAIN results : results[i][1] = step
        /\ pc = "exited" <=> exit_status # -1
        /\ pc = "exited" => exit_status = IF Success THEN 0 ELSE 1

\* the whole pipeline has run and main has exited with 0
C26_Witness ==
    /\ step = "all" /\ pc = "exited"
    /\ exit_status = 0
    /\ Len(results) = 5
    /\ output # <<>>
    /\ Cardinality(Trainings) = 2

====
